---- MODULE Spec2Model ----
(***************************************************************************)
(* A model of the key-value server of src/server.cpp and of the ring       *)
(* buffer of src/buffer.cpp.  Bytes are the integers 0..255, a string is   *)
(* a sequence of bytes, and every buffer, request, response and log file   *)
(* is kept byte for byte.  Storage index i of the source (0-based) is      *)
(* element i+1 of a sequence here.                                         *)
(***************************************************************************)
EXTENDS Integers, Sequences, FiniteSets, TLC

VARIABLES
    g_data,     \* the global state `g_data` of server.cpp (db, fd2conn, idle_list, heap, aof_*)
    files,      \* the file system: the main log, the rewrite side file
    net,        \* per connection, the client's side of the socket
    now,        \* the monotonic clock, in ms
    pc,         \* the event loop's position inside one iteration of main()
    ready,      \* the revents that poll() returned, not yet served
    hist        \* observations of the run (what was dispatched, what was replied)

vars == <<g_data, files, net, now, pc, ready, hist>>

(***************************************************************************)
(* Bounds of the model.  The source's sizes are scaled down so that the    *)
(* cases they guard are reached with short requests.                       *)
(***************************************************************************)
\* Buffer's default capacity (1024 in buffer.h), scaled
BufInitCap == 16
\* append()'s growth threshold (1 MiB in buffer.cpp), scaled
BufGrowLinear == 64
\* k_max_msg (32 MiB in server.cpp), scaled
MaxMsg == 40
\* the clock stops advancing here
MaxTime == 2
\* commands the client sends in one run
MaxCmds == 2
\* frames the pipelining clients send in one run
MaxFrames == 3
\* requests the clients send in one run where system calls fail or fall short
MaxSends == 2
\* connections the clients open in one run where connections are closed
MaxAccepts == 3
\* connections open at a time in such a run
MaxLive == 2
\* k_max_works (2000 in server.cpp), scaled
MaxWorks == 2
\* the capacity of the Buffer whose operations are called in any order
\* (1024 by default in buffer.h), scaled
BufTestCap == 4
\* the operations called on it in one run
MaxBufOps == 4
\* the most bytes one append or insert brings
MaxBufLen == 3
\* the largest capacity resize is asked for
MaxBufCap == 8
\* the width of the int32_t that carries the poll timeout (32 in server.cpp),
\* scaled; 2^(TimeoutBits - 1) stays above k_idle_timeout_ms as 2^31 does
TimeoutBits == 14

(***************************************************************************)
(* Bytes and sequences                                                      *)
(***************************************************************************)
\* the content of storage that was allocated and never written
Uninit == 255 + 1

Min(a, b) == IF a < b THEN a ELSE b
Max(a, b) == IF a > b THEN a ELSE b

Repeat(x, n) == SubSeq([i \in 1..n |-> x], 1, n)

Take(s, n) == SubSeq(s, 1, Min(n, Len(s)))
Drop(s, n) == SubSeq(s, n + 1, Len(s))

\* memcpy(&out, cur, 4) of a uint32_t on a little-endian host
U32LE(n) ==
    << n % 256, (n \div 256) % 256, (n \div 65536) % 256, (n \div 16777216) % 256 >>

FromU32LE(b) == b[1] + 256 * b[2] + 65536 * b[3] + 16777216 * b[4]

\* the 8 bytes of an int64_t (two's complement, little-endian); |v| < 2^31 here
I64LE(v) == U32LE(v) \o Repeat(IF v < 0 THEN 255 ELSE 0, 4)

\* lexicographic order of byte strings, as memcmp then length
RECURSIVE StrLess(_, _)
StrLess(a, b) ==
    IF b = <<>> THEN FALSE
    ELSE IF a = <<>> THEN TRUE
    ELSE IF a[1] # b[1] THEN a[1] < b[1]
    ELSE StrLess(Tail(a), Tail(b))

(***************************************************************************)
(* Buffer (src/buffer.cpp).  `data` is the allocation; an element past     *)
(* `capacity` exists only after a copy ran past the end of the allocation. *)
(***************************************************************************)
Buffer(cap) ==
    [head |-> 0, tail |-> 0, capacity |-> cap, size |-> 0, data |-> Repeat(Uninit, cap)]

\* the byte at storage index i; past the allocation the value is indeterminate
Rd(data, i) == IF i + 1 <= Len(data) THEN data[i + 1] ELSE Uninit

ReadN(data, start, n) ==
    IF start + n <= Len(data) THEN SubSeq(data, start + 1, start + n)
    ELSE SubSeq([i \in 1..n |-> Rd(data, start + i - 1)], 1, n)

\* memcpy(data + at, src, Len(src)) inside the allocation
MemWrite(data, at, src) ==
    LET k == Min(Len(src), Len(data) - at)
    IN IF k <= 0 THEN data
       ELSE SubSeq(data, 1, at) \o SubSeq(src, 1, k) \o SubSeq(data, at + k + 1, Len(data))

\* Buffer::resize.  `ub` tells what became of the bytes memcpy wrote past a
\* new allocation smaller than the data: "intact" (still there when read
\* back) or "clobbered".
BufResizeCopied(b) ==
    IF b.head < b.tail
    THEN ReadN(b.data, b.head, b.size)
    ELSE ReadN(b.data, b.head, b.capacity - b.head) \o ReadN(b.data, 0, b.tail)

BufResizeData(copied, new_capacity, ub) ==
    IF Len(copied) <= new_capacity
    THEN copied \o Repeat(Uninit, new_capacity - Len(copied))
    ELSE IF ub = "intact" THEN copied
    ELSE Take(copied, new_capacity)

BufResize(b, new_capacity, ub) ==
    [head |-> 0, tail |-> b.size, capacity |-> new_capacity,
     size |-> b.size, data |-> BufResizeData(BufResizeCopied(b), new_capacity, ub)]

\* the capacity append() grows to
BufGrowTo(n) == IF n < BufGrowLinear THEN n * 2 ELSE n + BufGrowLinear

\* Buffer::append: the copy at tail, once the capacity is enough
BufAppendCopy(b, d) ==
    IF b.tail + Len(d) > b.capacity
    THEN [b EXCEPT !.data = MemWrite(MemWrite(b.data, b.tail, Take(d, b.capacity - b.tail)),
                                     0, Drop(d, b.capacity - b.tail)),
                   !.tail = Len(d) - (b.capacity - b.tail),
                   !.size = b.size + Len(d)]
    ELSE [b EXCEPT !.data = MemWrite(b.data, b.tail, d),
                   !.tail = b.tail + Len(d),
                   !.size = b.size + Len(d)]

\* Buffer::append
BufAppend(b0, d) ==
    IF b0.capacity < Len(d) + b0.size
    THEN BufAppendCopy(BufResize(b0, BufGrowTo(Len(d) + b0.size), "intact"), d)
    ELSE BufAppendCopy(b0, d)

\* Buffer::consume (len <= size is the callers' duty)
BufConsume(b, len) ==
    [b EXCEPT !.head = (b.head + len) % b.capacity, !.size = b.size - len]

\* Buffer::peek: the bytes copied to dst (dst is left as it was if pos >= size)
BufPeek(b, pos, len) ==
    IF pos >= b.size THEN Repeat(Uninit, len)
    ELSE LET real_pos == (b.head + pos) % b.capacity
         IN IF real_pos + len <= b.capacity
            THEN ReadN(b.data, real_pos, len)
            ELSE ReadN(b.data, real_pos, b.capacity - real_pos)
                 \o ReadN(b.data, 0, len - (b.capacity - real_pos))

\* Buffer::peek_u32
BufPeekU32(b, pos) == FromU32LE(BufPeek(b, pos, 4))

\* Buffer::get_continuous_data: the storage index and the length handed out
BufGetContinuousData(b, pos) ==
    IF pos >= b.size THEN [null |-> TRUE, at |-> 0, len |-> 0]
    ELSE LET real_pos == (b.head + pos) % b.capacity
         IN IF real_pos + b.size <= b.capacity
            THEN [null |-> FALSE, at |-> real_pos, len |-> b.tail - real_pos]
            ELSE [null |-> FALSE, at |-> real_pos, len |-> b.capacity - real_pos]

\* Buffer::insert
\* the copy at head + pos
BufInsertCopy(b, d, pos) ==
    LET len == Len(d)
        real_pos == (b.head + pos) % b.capacity
        first_part == b.capacity - real_pos
    IN IF real_pos + len > b.capacity
       THEN [b EXCEPT !.data = MemWrite(MemWrite(b.data, real_pos, Take(d, first_part)),
                                        0, Drop(d, first_part))]
       ELSE [b EXCEPT !.data = MemWrite(b.data, real_pos, d)]

\* the growth when the new size exceeds the capacity
BufInsertGrow(b1, d, pos) ==
    BufInsertCopy(IF b1.size > b1.capacity THEN BufResize(b1, b1.size * 2, "intact")
                  ELSE b1,
                  d, pos)

BufInsert(b0, d, pos) ==
    IF pos >= b0.size THEN b0
    ELSE BufInsertGrow(IF pos + Len(d) > b0.size
                       THEN [b0 EXCEPT !.size = pos + Len(d),
                                       !.tail = (b0.head + pos + Len(d)) % b0.capacity]
                       ELSE b0,
                       d, pos)

\* the logical content: what peek(dst, 0, size) copies
BufContent(b) == BufPeek(b, 0, b.size)

(***************************************************************************)
(* Strings of the protocol                                                  *)
(***************************************************************************)
s_get == <<103, 101, 116>>
s_set == <<115, 101, 116>>
s_del == <<100, 101, 108>>
s_pexpire == <<112, 101, 120, 112, 105, 114, 101>>
s_pttl == <<112, 116, 116, 108>>
s_keys == <<107, 101, 121, 115>>
s_zadd == <<122, 97, 100, 100>>
s_zrem == <<122, 114, 101, 109>>
s_zscore == <<122, 115, 99, 111, 114, 101>>
s_zquery == <<122, 113, 117, 101, 114, 121>>
s_bgrewriteaof == <<98, 103, 114, 101, 119, 114, 105, 116, 101, 97, 111, 102>>
\* "not a string value"
m_not_string == <<110, 111, 116, 32, 97, 32, 115, 116, 114, 105, 110, 103, 32, 118, 97, 108, 117, 101>>
\* "a non-string value exists"
m_non_string_exists == <<97, 32, 110, 111, 110, 45, 115, 116, 114, 105, 110, 103, 32, 118, 97, 108, 117, 101, 32, 101, 120, 105, 115, 116, 115>>
\* "expect int64"
m_expect_int64 == <<101, 120, 112, 101, 99, 116, 32, 105, 110, 116, 54, 52>>
\* "expect float"
m_expect_float == <<101, 120, 112, 101, 99, 116, 32, 102, 108, 111, 97, 116>>
\* "AOF is not enabled"
m_aof_not_enabled == <<65, 79, 70, 32, 105, 115, 32, 110, 111, 116, 32, 101, 110, 97, 98, 108, 101, 100>>
\* "AOF rewrite already in progress"
m_aof_in_progress == <<65, 79, 70, 32, 114, 101, 119, 114, 105, 116, 101, 32, 97, 108, 114, 101, 97, 100, 121, 32, 105, 110, 32, 112, 114, 111, 103, 114, 101, 115, 115>>
\* "AOF rewrite failed"
m_aof_failed == <<65, 79, 70, 32, 114, 101, 119, 114, 105, 116, 101, 32, 102, 97, 105, 108, 101, 100>>
\* "expect zset"
m_expect_zset == <<101, 120, 112, 101, 99, 116, 32, 122, 115, 101, 116>>
\* "expect fp number"
m_expect_fp == <<101, 120, 112, 101, 99, 116, 32, 102, 112, 32, 110, 117, 109, 98, 101, 114>>
\* "expect int"
m_expect_int == <<101, 120, 112, 101, 99, 116, 32, 105, 110, 116>>
\* "unknown command."
m_unknown == <<117, 110, 107, 110, 111, 119, 110, 32, 99, 111, 109, 109, 97, 110, 100, 46>>
\* "response is too big."
m_too_big == <<114, 101, 115, 112, 111, 110, 115, 101, 32, 105, 115, 32, 116, 111, 111, 32, 98, 105, 103, 46>>

(***************************************************************************)
(* Numbers as text.  A double is kept as a whole number of DblUnit-ths     *)
(* (seven decimal places, one more than "%f" prints).                       *)
(***************************************************************************)
DblUnit == 10 * 1000 * 1000

IsDigit(c) == c >= 48 /\ c <= 57
IsSpace(c) == c = 32 \/ (c >= 9 /\ c <= 13)

\* s.c_str(): the characters before the first NUL
RECURSIVE CStr(_)
CStr(s) == IF s = <<>> \/ s[1] = 0 THEN <<>> ELSE <<s[1]>> \o CStr(Tail(s))

\* index of the first character at or after i that is no white space
RECURSIVE SkipSpace(_, _)
SkipSpace(s, i) == IF i <= Len(s) /\ IsSpace(s[i]) THEN SkipSpace(s, i + 1) ELSE i

\* index of the first character at or after i that is no digit
RECURSIVE SkipDigits(_, _)
SkipDigits(s, i) == IF i <= Len(s) /\ IsDigit(s[i]) THEN SkipDigits(s, i + 1) ELSE i

\* the value of the digits s[i..j-1]
RECURSIVE DigitsVal(_, _, _)
DigitsVal(s, i, j) ==
    IF j <= i THEN 0 ELSE 10 * DigitsVal(s, i, j - 1) + (s[j - 1] - 48)

Pow10(n) == CASE n = 0 -> 1 [] n = 1 -> 10 [] n = 2 -> 100 [] n = 3 -> 1000
              [] n = 4 -> 10000 [] n = 5 -> 100000 [] n = 6 -> 1000000
              [] OTHER -> 10000000

\* strtoll(s, &endp, 10): the value and the number of characters consumed
\* the digits s[i1..i2-1] after the sign
StrToLLDigits(s, neg, i1, i2) ==
    IF i2 = i1 THEN [val |-> 0, used |-> 0]
    ELSE [val |-> (IF neg THEN -1 ELSE 1) * DigitsVal(s, i1, i2), used |-> i2 - 1]

\* the optional sign at i0
StrToLLSign(s, neg, i1) == StrToLLDigits(s, neg, i1, SkipDigits(s, i1))

StrToLLFrom(s, i0) ==
    StrToLLSign(s, i0 <= Len(s) /\ s[i0] = 45,
                IF i0 <= Len(s) /\ (s[i0] = 45 \/ s[i0] = 43) THEN i0 + 1 ELSE i0)

StrToLL(s) == StrToLLFrom(s, SkipSpace(s, 1))

\* str2int
Str2IntResult(r, size) == [ok |-> r.used = size, out |-> r.val]

str2int(s) == Str2IntResult(StrToLL(CStr(s)), Len(s))

\* strtod(s, &endp) on the decimal forms [ws][sign]digits[.digits] and on
\* "nan": the value, whether it is a NaN, and the characters consumed
ToLower(c) == IF c >= 65 /\ c <= 90 THEN c + 32 ELSE c

\* the value of [sign] s[i1..i2-1] [. s[i2+1..i3-1]], kept digits of the fraction
StrToDMag(s, i1, i2, kept) ==
    DigitsVal(s, i1, i2) * DblUnit + DigitsVal(s, i2 + 1, i2 + 1 + kept) * Pow10(7 - kept)

StrToDValue(s, neg, i1, i2, i3, nfrac) ==
    IF i1 + 2 <= Len(s) /\ ToLower(s[i1]) = 110 /\ ToLower(s[i1 + 1]) = 97
       /\ ToLower(s[i1 + 2]) = 110
    THEN [val |-> 0, nan |-> TRUE, used |-> i1 + 2]
    ELSE IF (i2 - i1) + nfrac = 0 THEN [val |-> 0, nan |-> FALSE, used |-> 0]
    ELSE [val |-> (IF neg THEN -1 ELSE 1) * StrToDMag(s, i1, i2, Min(nfrac, 7)),
          nan |-> FALSE, used |-> i3 - 1]

StrToDFrac(s, neg, i1, i2, dot, i3) ==
    StrToDValue(s, neg, i1, i2, i3, IF dot THEN i3 - (i2 + 1) ELSE 0)

StrToDDot(s, neg, i1, i2, dot) ==
    StrToDFrac(s, neg, i1, i2, dot, IF dot THEN SkipDigits(s, i2 + 1) ELSE i2)

StrToDInt(s, neg, i1, i2) == StrToDDot(s, neg, i1, i2, i2 <= Len(s) /\ s[i2] = 46)

StrToDSign(s, neg, i1) == StrToDInt(s, neg, i1, SkipDigits(s, i1))

StrToDFrom(s, i0) ==
    StrToDSign(s, i0 <= Len(s) /\ s[i0] = 45,
               IF i0 <= Len(s) /\ (s[i0] = 45 \/ s[i0] = 43) THEN i0 + 1 ELSE i0)

StrToD(s) == StrToDFrom(s, SkipSpace(s, 1))

\* str2dbl
Str2DblResult(r, size) == [ok |-> r.used = size /\ ~r.nan, out |-> r.val]

str2dbl(s) == Str2DblResult(StrToD(CStr(s)), Len(s))

\* the decimal digits of n >= 0
RECURSIVE Digits(_)
Digits(n) == IF n < 10 THEN <<48 + n>> ELSE Digits(n \div 10) \o <<48 + (n % 10)>>

\* the six digits of 0 <= n < 10^6, padded with zeros
Digits6(n) ==
    << 48 + ((n \div 100000) % 10), 48 + ((n \div 10000) % 10), 48 + ((n \div 1000) % 10),
       48 + ((n \div 100) % 10), 48 + ((n \div 10) % 10), 48 + (n % 10) >>

\* std::to_string(int64_t)
to_string_int(n) == IF n < 0 THEN <<45>> \o Digits(-n) ELSE Digits(n)

\* std::to_string(double): "%f", six decimal places
to_string_dbl(v) ==
    LET a == IF v < 0 THEN -v ELSE v
        q == (a + 5) \div 10
    IN (IF v < 0 THEN <<45>> ELSE <<>>)
       \o Digits(q \div 1000000) \o <<46>> \o Digits6(q % 1000000)

\* the 8 bytes of a double: the object representation is kept abstract, as the
\* bytes of the fixed-point value
DblLE(v) == I64LE(v)

(***************************************************************************)
(* Serialization (server.cpp, "help functions for the serialization")      *)
(***************************************************************************)
ERR_UNKNOWN == 1
ERR_TOO_BIG == 2
ERR_BAD_TYP == 3
ERR_BAD_ARG == 4

TAG_NIL == 0
TAG_ERR == 1
TAG_STR == 2
TAG_INT == 3
TAG_DBL == 4
TAG_ARR == 5

buf_append_u8(buf, data) == BufAppend(buf, <<data>>)
buf_append_u32(buf, data) == BufAppend(buf, U32LE(data))
buf_append_i64(buf, data) == BufAppend(buf, I64LE(data))
buf_append_dbl(buf, data) == BufAppend(buf, DblLE(data))

out_nil(out) == buf_append_u8(out, TAG_NIL)
out_str(out, s) == BufAppend(buf_append_u32(buf_append_u8(out, TAG_STR), Len(s)), s)
out_int(out, val) == buf_append_i64(buf_append_u8(out, TAG_INT), val)
out_dbl(out, val) == buf_append_dbl(buf_append_u8(out, TAG_DBL), val)
out_err(out, code, msg) ==
    BufAppend(buf_append_u32(buf_append_u32(buf_append_u8(out, TAG_ERR), code),
                             Len(msg)), msg)
out_arr(out, n) == buf_append_u32(buf_append_u8(out, TAG_ARR), n)

\* out_begin_arr: the buffer and the `ctx` it returns
OutBeginArrCtx(o) == [out |-> o, ctx |-> o.size - 4]

out_begin_arr(out) == OutBeginArrCtx(buf_append_u32(buf_append_u8(out, TAG_ARR), 0))

\* out_end_arr: memcpy(&out[ctx], &n, 4) writes 4 consecutive storage bytes
\* from index (head + ctx) % capacity on; what falls past the allocation is
\* not part of the buffer
\* Buffer::operator[]: the storage index of the logical byte pos
BufIndex(b, pos) == (b.head + pos) % b.capacity

\* the storage indices memcpy(&out[ctx], &n, 4) writes: 4 consecutive bytes
\* from &out[ctx] on
OutEndArrSpan(out, ctx) == { BufIndex(out, ctx) + i : i \in 0..3 }

out_end_arr(out, ctx, n) ==
    [out EXCEPT !.data = MemWrite(out.data, (out.head + ctx) % out.capacity, U32LE(n))]

(***************************************************************************)
(* Requests (server.cpp, parse_req)                                         *)
(***************************************************************************)
k_max_args == 200000

\* the strings of a request body after its nstr field: rv -1 on a short read
RECURSIVE ParseStrs(_, _, _)
ParseStrs(data, nstr, out) ==
    IF Len(out) >= nstr THEN [rv |-> 0, out |-> out, rest |-> data]
    ELSE IF Len(data) < 4 THEN [rv |-> -1, out |-> out, rest |-> data]
    ELSE LET len == FromU32LE(data)
             body == Drop(data, 4)
         IN IF len > Len(body) THEN [rv |-> -1, out |-> out \o << <<>> >>, rest |-> body]
            ELSE ParseStrs(Drop(body, len), nstr, Append(out, Take(body, len)))

\* parse_req without its last test: bytes after the last string are let pass
parse_req_lenient(data) ==
    IF Len(data) < 4 THEN [rv |-> -1, out |-> <<>>]
    ELSE LET nstr == FromU32LE(data)
         IN IF nstr > k_max_args THEN [rv |-> -1, out |-> <<>>]
            ELSE LET r == ParseStrs(Drop(data, 4), nstr, <<>>)
                 IN IF r.rv < 0 THEN [rv |-> -1, out |-> r.out]
                    ELSE [rv |-> 0, out |-> r.out]

\* parse_req: rv and the command vector
parse_req(data) ==
    IF Len(data) < 4 THEN [rv |-> -1, out |-> <<>>]
    ELSE LET nstr == FromU32LE(data)
         IN IF nstr > k_max_args THEN [rv |-> -1, out |-> <<>>]
            ELSE LET r == ParseStrs(Drop(data, 4), nstr, <<>>)
                 IN IF r.rv < 0 THEN [rv |-> -1, out |-> r.out]
                    ELSE IF r.rest # <<>> THEN [rv |-> -1, out |-> r.out]
                    ELSE [rv |-> 0, out |-> r.out]

\* the body of a request: u32 nstr | (u32 len | bytes)^nstr
RECURSIVE EncodeStrs(_)
EncodeStrs(cmd) ==
    IF cmd = <<>> THEN <<>>
    ELSE U32LE(Len(cmd[1])) \o cmd[1] \o EncodeStrs(Tail(cmd))

ReqBody(cmd) == U32LE(Len(cmd)) \o EncodeStrs(cmd)

\* a request frame as a client sends it
ReqFrame(cmd) == U32LE(Len(ReqBody(cmd))) \o ReqBody(cmd)

(***************************************************************************)
(* The value store.  db is the set of Entry objects linked in the hash     *)
(* table, each with its key; a sorted set is the set of its (name, score)  *)
(* nodes.  heap_idx is the 0-based slot in g_data.heap, or -1.  The hash   *)
(* table, the sorted set and the heap are modelled from their contracts.   *)
(***************************************************************************)
T_INIT == 0
T_STR == 1
T_ZSET == 2

\* entry_new
entry_new(type, key) ==
    [key |-> key, heap_idx |-> -1, type |-> type, str |-> <<>>, zset |-> {}]

\* hm_lookup with entry_eq
hm_lookup(db, key) == {e \in db : e.key = key}
HasKey(db, key) == hm_lookup(db, key) # {}
Ent(db, key) == CHOOSE e \in db : e.key = key

\* hm_size
hm_size(h) == Cardinality(h)

\* the sequence of a finite set of byte strings in lexicographic order
RECURSIVE SortStrs(_)
SortStrs(S) ==
    IF S = {} THEN <<>>
    ELSE LET m == CHOOSE x \in S : \A y \in S \ {x} : StrLess(x, y)
         IN <<m>> \o SortStrs(S \ {m})

\* hm_foreach over the db: the keys in the order visited
hm_foreach_keys(db) == SortStrs({e.key : e \in db})

\* zset order: (score, name) ascending
ZLess(a, b) == a.score < b.score \/ (a.score = b.score /\ StrLess(a.name, b.name))

RECURSIVE ZSorted(_)
ZSorted(z) ==
    IF z = {} THEN <<>>
    ELSE LET m == CHOOSE x \in z : \A y \in z \ {x} : ZLess(x, y)
         IN <<m>> \o ZSorted(z \ {m})

\* hm_foreach over a sorted set's name index: the nodes in the order visited
NodesNamed(z, names) ==
    SubSeq([i \in 1..Len(names) |-> CHOOSE n \in z : n.name = names[i]], 1, Len(names))

hm_foreach_znodes(z) == NodesNamed(z, SortStrs({n.name : n \in z}))

\* zset_lookup: the nodes with that name (none or one)
zset_lookup(z, name) == {n \in z : n.name = name}

\* zset_insert: the set, and whether a node was added (else its score is updated)
zset_insert(z, name, score) ==
    [zset |-> {n \in z : n.name # name} \cup {[name |-> name, score |-> score]},
     added |-> zset_lookup(z, name) = {}]

\* zset_delete
zset_delete(z, name) == {n \in z : n.name # name}

\* zset_seekge: the rank (1-based, in (score, name) order) of the first node
\* >= (score, name); 0 is NULL
MinRank(ge) == IF ge = {} THEN 0 ELSE CHOOSE i \in ge : \A j \in ge : i <= j

SeekGE(s, key) == MinRank({i \in 1..Len(s) : ~ZLess(s[i], key)})

zset_seekge(z, score, name) == SeekGE(ZSorted(z), [name |-> name, score |-> score])

\* znode_offset: the rank `offset` places on, 0 (NULL) outside the set
znode_offset(z, rank, offset) ==
    IF rank = 0 THEN 0
    ELSE IF rank + offset >= 1 /\ rank + offset <= Cardinality(z) THEN rank + offset
    ELSE 0

\* heap.h
heap_parent(i) == ((i + 1) \div 2) - 1
heap_left(i) == i * 2 + 1
heap_right(i) == i * 2 + 2

\* heap_up: the array and the final position of the item
RECURSIVE heap_up(_, _, _)
heap_up(a, pos, t) ==
    IF pos > 0 /\ a[heap_parent(pos) + 1].val > t.val
    THEN heap_up([a EXCEPT ![pos + 1] = a[heap_parent(pos) + 1]], heap_parent(pos), t)
    ELSE [a |-> [a EXCEPT ![pos + 1] = t], pos |-> pos]

\* heap_down
RECURSIVE heap_down(_, _, _, _)
heap_down(a, pos, len, t) ==
    LET l == heap_left(pos)
        r == heap_right(pos)
        min_l == IF l < len /\ a[l + 1].val < t.val THEN l ELSE -1
        min_val == IF min_l >= 0 THEN a[l + 1].val ELSE t.val
        min_pos == IF r < len /\ a[r + 1].val < min_val THEN r ELSE min_l
    IN IF min_pos = -1 THEN [a |-> [a EXCEPT ![pos + 1] = t], pos |-> pos]
       ELSE heap_down([a EXCEPT ![pos + 1] = a[min_pos + 1]], min_pos, len, t)

\* heap_update
heap_update(a, pos, len) ==
    IF pos > 0 /\ a[heap_parent(pos) + 1].val > a[pos + 1].val
    THEN heap_up(a, pos, a[pos + 1])
    ELSE heap_down(a, pos, len, a[pos + 1])

\* the writes through HeapItem::ref: every item heap_update stored in a slot
\* sets the heap_idx of its Entry to that slot
HeapSync(db, old, r) ==
    LET moved == {i \in 1..Len(r.a) :
                    i = r.pos + 1 \/ i > Len(old) \/ old[i] # r.a[i]}
        slot(e) == {i \in moved : r.a[i].ref = e.key}
    IN {IF slot(e) = {} THEN e ELSE [e EXCEPT !.heap_idx = (CHOOSE i \in slot(e) : TRUE) - 1]
        : e \in db}

\* an Entry replaced in the db
PutEnt(db, e) == {x \in db : x.key # e.key} \cup {e}

\* heap_delete, were it to skip heap_update after moving the last item
heap_delete_unsynced(g, pos) ==
    [g EXCEPT !.heap = SubSeq([g.heap EXCEPT ![pos + 1] = g.heap[Len(g.heap)]],
                              1, Len(g.heap) - 1)]

\* heap_delete, with the Entry objects it writes
HeapStore(g, a1, r) == [g EXCEPT !.heap = r.a, !.db = HeapSync(g.db, a1, r)]

HeapUpdated(g, a1, pos) == HeapStore(g, a1, heap_update(a1, pos, Len(a1)))

heap_delete(g, pos) ==
    LET a0 == g.heap
        a1 == SubSeq([a0 EXCEPT ![pos + 1] = a0[Len(a0)]], 1, Len(a0) - 1)
    IN IF pos < Len(a1) THEN HeapUpdated(g, a1, pos)
       ELSE [g EXCEPT !.heap = a1]

\* heap_upsert
heap_upsert(g, pos0, t) ==
    LET a0 == g.heap
    IN IF pos0 >= 0 /\ pos0 < Len(a0)
       THEN HeapUpdated(g, [a0 EXCEPT ![pos0 + 1] = t], pos0)
       ELSE HeapUpdated(g, Append(a0, t), Len(a0))

\* ent->heap_idx = -1 after heap_delete
ClearHeapIdx(g1, key) ==
    [g1 EXCEPT !.db = PutEnt(g1.db, [Ent(g1.db, key) EXCEPT !.heap_idx = -1])]

\* entry_set_ttl on the Entry with that key
entry_set_ttl(g, key, ttl_ms, t) ==
    LET ent == Ent(g.db, key)
    IN IF ttl_ms < 0 /\ ent.heap_idx # -1
       THEN ClearHeapIdx(heap_delete(g, ent.heap_idx), key)
       ELSE IF ttl_ms >= 0
       THEN heap_upsert(g, ent.heap_idx, [val |-> t + ttl_ms, ref |-> key])
       ELSE g

k_large_container_size == 1000

\* entry_del on an Entry that is still in the table
EntryFreeInTable(g1, ent) ==
    [g1 EXCEPT !.thread_pool = IF ent.type = T_ZSET /\ hm_size(ent.zset) > k_large_container_size
                               THEN Append(g1.thread_pool, ent)
                               ELSE g1.thread_pool]

\* hm_delete followed by entry_del: the Entry leaves the heap and the table,
\* and a large sorted set is handed to the thread pool
EntryFree(g1, ent) ==
    LET set_size == IF ent.type = T_ZSET THEN hm_size(ent.zset) ELSE 0
    IN [g1 EXCEPT !.db = g1.db \ {ent},
                  !.thread_pool = IF set_size > k_large_container_size
                                  THEN Append(g1.thread_pool, ent)
                                  ELSE g1.thread_pool]

EntryUnlink(g1, key) == EntryFree(g1, Ent(g1.db, key))

entry_del(g, key) == EntryUnlink(entry_set_ttl(g, key, -1, 0), key)

(***************************************************************************)
(* Commands (server.cpp, do_get .. do_zquery).  Each takes the global      *)
(* state g, the command vector, the response buffer and the clock, and     *)
(* gives the new g and the new buffer.                                      *)
(***************************************************************************)
Ret(g, out) == [g |-> g, out |-> out]

do_get(g, cmd, out, t) ==
    IF ~HasKey(g.db, cmd[2]) THEN Ret(g, out_nil(out))
    ELSE LET ent == Ent(g.db, cmd[2])
         IN IF ent.type # T_STR THEN Ret(g, out_err(out, ERR_BAD_TYP, m_not_string))
            ELSE Ret(g, out_str(out, ent.str))

\* a do_set that replaces whatever the key holds, without the type check
do_set_any_type(g, cmd, out, t) ==
    Ret([g EXCEPT !.db = PutEnt(g.db, [(IF HasKey(g.db, cmd[2]) THEN Ent(g.db, cmd[2])
                                        ELSE entry_new(T_STR, cmd[2]))
                                       EXCEPT !.type = T_STR, !.str = cmd[3], !.zset = {}])],
        out_nil(out))

do_set(g, cmd, out, t) ==
    IF HasKey(g.db, cmd[2])
    THEN LET ent == Ent(g.db, cmd[2])
         IN IF ent.type # T_STR
            THEN Ret(g, out_err(out, ERR_BAD_TYP, m_non_string_exists))
            ELSE Ret([g EXCEPT !.db = PutEnt(g.db, [ent EXCEPT !.str = cmd[3]])],
                     out_nil(out))
    ELSE Ret([g EXCEPT !.db = g.db \cup {[entry_new(T_STR, cmd[2]) EXCEPT !.str = cmd[3]]}],
             out_nil(out))

do_del(g, cmd, out, t) ==
    IF HasKey(g.db, cmd[2])
    THEN Ret(entry_del(g, cmd[2]), out_int(out, 1))
    ELSE Ret(g, out_int(out, 0))

\* a do_expire that leaves the TTL alone when ms is negative
do_expire_keep(g, cmd, out, t) ==
    IF ~str2int(cmd[3]).ok THEN Ret(g, out_err(out, ERR_BAD_ARG, m_expect_int64))
    ELSE IF HasKey(g.db, cmd[2]) /\ str2int(cmd[3]).out >= 0
    THEN Ret(entry_set_ttl(g, cmd[2], str2int(cmd[3]).out, t), out_int(out, 1))
    ELSE Ret(g, out_int(out, IF HasKey(g.db, cmd[2]) THEN 1 ELSE 0))

do_expire(g, cmd, out, t) ==
    LET ttl_ms == str2int(cmd[3])
    IN IF ~ttl_ms.ok THEN Ret(g, out_err(out, ERR_BAD_ARG, m_expect_int64))
       ELSE IF HasKey(g.db, cmd[2])
       THEN Ret(entry_set_ttl(g, cmd[2], ttl_ms.out, t), out_int(out, 1))
       ELSE Ret(g, out_int(out, 0))

do_ttl(g, cmd, out, t) ==
    IF ~HasKey(g.db, cmd[2]) THEN Ret(g, out_int(out, -2))
    ELSE LET ent == Ent(g.db, cmd[2])
         IN IF ent.heap_idx = -1 THEN Ret(g, out_int(out, -1))
            ELSE LET expire_at == g.heap[ent.heap_idx + 1].val
                 IN Ret(g, out_int(out, IF expire_at > t THEN expire_at - t ELSE 0))

\* cb_keys over hm_foreach
RECURSIVE out_strs(_, _)
out_strs(st, strs) ==
    IF st.i > Len(strs) THEN st.out
    ELSE out_strs([out |-> out_str(st.out, strs[st.i]), i |-> st.i + 1], strs)

do_keys(g, cmd, out, t) ==
    Ret(g, out_strs([out |-> out_arr(out, hm_size(g.db)), i |-> 1], hm_foreach_keys(g.db)))

\* a do_zadd that links the new key into the table before it parses the score
do_zadd_insert_first(g, cmd, out, t) ==
    LET score == str2dbl(cmd[3])
        g1 == IF HasKey(g.db, cmd[2]) THEN g
              ELSE [g EXCEPT !.db = g.db \cup {entry_new(T_ZSET, cmd[2])}]
        ent == Ent(g1.db, cmd[2])
        r == zset_insert(ent.zset, cmd[4], score.out)
    IN IF ~score.ok THEN Ret(g1, out_err(out, ERR_BAD_ARG, m_expect_float))
       ELSE IF ent.type # T_ZSET THEN Ret(g1, out_err(out, ERR_BAD_TYP, m_expect_zset))
       ELSE Ret([g1 EXCEPT !.db = PutEnt(g1.db, [ent EXCEPT !.zset = r.zset])],
                out_int(out, IF r.added THEN 1 ELSE 0))

do_zadd(g, cmd, out, t) ==
    LET score == str2dbl(cmd[3])
    IN IF ~score.ok THEN Ret(g, out_err(out, ERR_BAD_ARG, m_expect_float))
       ELSE IF HasKey(g.db, cmd[2]) /\ Ent(g.db, cmd[2]).type # T_ZSET
       THEN Ret(g, out_err(out, ERR_BAD_TYP, m_expect_zset))
       ELSE LET ent == IF HasKey(g.db, cmd[2]) THEN Ent(g.db, cmd[2])
                       ELSE entry_new(T_ZSET, cmd[2])
                r == zset_insert(ent.zset, cmd[4], score.out)
            IN Ret([g EXCEPT !.db = PutEnt(g.db, [ent EXCEPT !.zset = r.zset])],
                   out_int(out, IF r.added THEN 1 ELSE 0))

\* expect_zset: found is FALSE for the NULL it returns on a key of another
\* type; a missing key gives k_empty_zset, which belongs to no Entry
expect_zset(g, s) ==
    IF ~HasKey(g.db, s) THEN [found |-> TRUE, zset |-> {}, owned |-> FALSE]
    ELSE LET ent == Ent(g.db, s)
         IN IF ent.type = T_ZSET THEN [found |-> TRUE, zset |-> ent.zset, owned |-> TRUE]
            ELSE [found |-> FALSE, zset |-> {}, owned |-> FALSE]

\* a do_zrem that creates the sorted set it does not find
do_zrem_creating(g, cmd, out, t) ==
    IF ~HasKey(g.db, cmd[2])
    THEN Ret([g EXCEPT !.db = g.db \cup {entry_new(T_ZSET, cmd[2])}], out_int(out, 0))
    ELSE LET z == expect_zset(g, cmd[2])
         IN IF ~z.found THEN Ret(g, out_err(out, ERR_BAD_TYP, m_expect_zset))
            ELSE IF zset_lookup(z.zset, cmd[3]) # {}
            THEN Ret([g EXCEPT !.db = PutEnt(g.db, [Ent(g.db, cmd[2]) EXCEPT
                                                      !.zset = zset_delete(z.zset, cmd[3])])],
                     out_int(out, 1))
            ELSE Ret(g, out_int(out, 0))

do_zrem(g, cmd, out, t) ==
    LET z == expect_zset(g, cmd[2])
    IN IF ~z.found THEN Ret(g, out_err(out, ERR_BAD_TYP, m_expect_zset))
       ELSE IF zset_lookup(z.zset, cmd[3]) # {}
       THEN Ret([g EXCEPT !.db = PutEnt(g.db, [Ent(g.db, cmd[2]) EXCEPT
                                                 !.zset = zset_delete(z.zset, cmd[3])])],
                out_int(out, 1))
       ELSE Ret(g, out_int(out, 0))

do_zscore(g, cmd, out, t) ==
    LET z == expect_zset(g, cmd[2])
    IN IF ~z.found THEN Ret(g, out_err(out, ERR_BAD_TYP, m_expect_zset))
       ELSE LET znode == zset_lookup(z.zset, cmd[3])
            IN IF znode # {} THEN Ret(g, out_dbl(out, (CHOOSE n \in znode : TRUE).score))
               ELSE Ret(g, out_nil(out))

\* the output loop of do_zquery: the buffer and the final n
\* st holds the loop's variables: the buffer, znode (a rank) and n
RECURSIVE zquery_loop(_, _, _)
zquery_loop(st, z, limit) ==
    IF st.rank # 0 /\ st.n < limit
    THEN zquery_loop([out |-> out_dbl(out_str(st.out, ZSorted(z)[st.rank].name),
                                      ZSorted(z)[st.rank].score),
                      rank |-> znode_offset(z, st.rank, 1),
                      n |-> st.n + 2],
                     z, limit)
    ELSE st

\* out_end_arr after the loop
ZQueryEnd(g, ctx, r) == Ret(g, out_end_arr(r.out, ctx, r.n))

\* the array from out_begin_arr on
ZQueryOut(g, z, znode, limit, b) ==
    ZQueryEnd(g, b.ctx, zquery_loop([out |-> b.out, rank |-> znode, n |-> 0], z, limit))

do_zquery(g, cmd, out, t) ==
    LET score == str2dbl(cmd[3])
        offset == str2int(cmd[5])
        limit == str2int(cmd[6])
        z == expect_zset(g, cmd[2])
    IN IF ~score.ok THEN Ret(g, out_err(out, ERR_BAD_ARG, m_expect_fp))
       ELSE IF ~offset.ok \/ ~limit.ok THEN Ret(g, out_err(out, ERR_BAD_ARG, m_expect_int))
       ELSE IF ~z.found THEN Ret(g, out_err(out, ERR_BAD_TYP, m_expect_zset))
       ELSE IF limit.out <= 0 THEN Ret(g, out_arr(out, 0))
       ELSE ZQueryOut(g, z.zset,
                      znode_offset(z.zset, zset_seekge(z.zset, score.out, cmd[4]),
                                   offset.out),
                      limit.out, out_begin_arr(out))

(***************************************************************************)
(* The append-only file.  fs.log is the content of "redis.aof", fs.temp    *)
(* the content of "redis.aof.temp" (fs.has_temp: the path exists).  An io  *)
(* record holds what the system calls of one handler return.               *)
(***************************************************************************)
\* aof_write_command
\* the for loop over cmd; st holds the buffer and the index of the next string
RECURSIVE aof_write_strs(_, _)
aof_write_strs(st, cmd) ==
    IF st.i > Len(cmd) THEN st.buf
    ELSE aof_write_strs([buf |-> BufAppend(buf_append_u32(st.buf, Len(cmd[st.i])),
                                           cmd[st.i]),
                         i |-> st.i + 1],
                        cmd)

aof_write_command(buf, cmd) ==
    IF cmd = <<>> THEN buf
    ELSE aof_write_strs([buf |-> buf_append_u32(buf, Len(cmd)), i |-> 1], cmd)

\* write(fd, data, data_size) of the span get_continuous_data(0) hands out:
\* the bytes that reach the file, or rv < 0
WriteSpan(buf, outcome) ==
    LET cd == BufGetContinuousData(buf, 0)
        n == CASE outcome = "full" -> cd.len
               [] outcome = "short" -> cd.len \div 2
               [] OTHER -> -1
    IN [rv |-> n, bytes |-> IF n > 0 THEN ReadN(buf.data, cd.at, n) ELSE <<>>,
        null |-> cd.null, len |-> cd.len]

\* aof_flush_and_sync, were it to consume the span it offered to write()
AofWrittenWholeSpan(g, fs, t, w) ==
    IF w.rv < 0 THEN [g |-> g, fs |-> fs]
    ELSE [g |-> [g EXCEPT !.aof_buf = BufConsume(g.aof_buf, w.len),
                          !.aof_last_save_ms =
                              IF t - g.aof_last_save_ms > 1000 THEN t
                              ELSE g.aof_last_save_ms],
          fs |-> [fs EXCEPT !.log = fs.log \o w.bytes,
                            !.fsyncs = IF t - g.aof_last_save_ms > 1000
                                       THEN fs.fsyncs + 1 ELSE fs.fsyncs]]

\* aof_flush_and_sync, were its gate `now - aof_last_save_ms >= 1000`
AofWrittenAtSecond(g, fs, t, w) ==
    IF w.rv < 0 THEN [g |-> g, fs |-> fs]
    ELSE [g |-> [g EXCEPT !.aof_buf = BufConsume(g.aof_buf, w.rv),
                          !.aof_last_save_ms =
                              IF t - g.aof_last_save_ms >= 1000 THEN t
                              ELSE g.aof_last_save_ms],
          fs |-> [fs EXCEPT !.log = fs.log \o w.bytes,
                            !.fsyncs = IF t - g.aof_last_save_ms >= 1000
                                       THEN fs.fsyncs + 1 ELSE fs.fsyncs]]

\* aof_flush_and_sync after its write(): consume, and fsync once a second
AofWritten(g, fs, t, w) ==
    IF w.rv < 0 THEN [g |-> g, fs |-> fs]
    ELSE [g |-> [g EXCEPT !.aof_buf = BufConsume(g.aof_buf, w.rv),
                          !.aof_last_save_ms =
                              IF t - g.aof_last_save_ms > 1000 THEN t
                              ELSE g.aof_last_save_ms],
          fs |-> [fs EXCEPT !.log = fs.log \o w.bytes,
                            !.fsyncs = IF t - g.aof_last_save_ms > 1000
                                       THEN fs.fsyncs + 1 ELSE fs.fsyncs]]

\* aof_flush_and_sync
aof_flush_and_sync(g, fs, t, io) ==
    IF ~g.aof_enabled \/ g.aof_buf.size = 0 \/ g.aof_fd < 0 THEN [g |-> g, fs |-> fs]
    ELSE AofWritten(g, fs, t, WriteSpan(g.aof_buf, io.aof_write))

\* what one write(fd, data, data_size) of aof_rewrite_entry puts in the file
RewriteWritten(w) == IF ~w.null /\ w.len > 0 THEN w.bytes ELSE <<>>

RewriteWrite(buf) == RewriteWritten(WriteSpan(buf, "full"))

\* the PEXPIRE command aof_rewrite_entry adds for an Entry with a TTL
RewriteTtl(g, ent, buf, t) ==
    IF ent.heap_idx # -1
    THEN LET ttl == g.heap[ent.heap_idx + 1].val - t
         IN IF ttl > 0
            THEN aof_write_command(buf, <<s_pexpire, ent.key, to_string_int(ttl)>>)
            ELSE buf
    ELSE buf

\* the lambda of aof_rewrite_entry over the sorted set's nodes
RECURSIVE RewriteZNodes(_, _)
RewriteZNodes(key, nodes) ==
    IF nodes = <<>> THEN <<>>
    ELSE LET znode == nodes[1]
         IN (IF Len(znode.name) = 0 THEN <<>>
             ELSE RewriteWrite(aof_write_command(Buffer(BufInitCap),
                      <<s_zadd, key, to_string_dbl(znode.score), znode.name>>)))
            \o RewriteZNodes(key, Tail(nodes))

\* aof_rewrite_entry: the bytes written to the side file
aof_rewrite_entry(g, ent, t) ==
    IF ent.type = T_STR
    THEN RewriteWrite(RewriteTtl(g, ent,
             aof_write_command(Buffer(BufInitCap), <<s_set, ent.key, ent.str>>), t))
    ELSE IF ent.type = T_ZSET
    THEN RewriteZNodes(ent.key, hm_foreach_znodes(ent.zset))
         \o RewriteWrite(RewriteTtl(g, ent, Buffer(BufInitCap), t))
    ELSE <<>>

RECURSIVE RewriteEntries(_, _, _)
RewriteEntries(g, keys, t) ==
    IF keys = <<>> THEN <<>>
    ELSE aof_rewrite_entry(g, Ent(g.db, keys[1]), t) \o RewriteEntries(g, Tail(keys), t)

\* aof_rewrite_do
aof_rewrite_do(g, fs, t) ==
    IF ~g.aof_rewriting \/ g.aof_rewrite_fd < 0 THEN fs
    ELSE [fs EXCEPT !.temp = fs.temp \o RewriteEntries(g, hm_foreach_keys(g.db), t)]

\* aof_rewrite_finish, were it to return from a failed rename() as it is
AofRenamedOrLeft(f, io) ==
    IF io.rename = "fail"
    THEN [g |-> f.g, fs |-> [f.fs EXCEPT !.temp = <<>>, !.has_temp = FALSE]]
    ELSE [g |-> [f.g EXCEPT !.aof_fd = IF io.reopen = "fail" THEN -1 ELSE 3,
                            !.aof_enabled = IF io.reopen = "fail" THEN FALSE
                                            ELSE f.g.aof_enabled,
                            !.aof_rewriting = FALSE],
          fs |-> [f.fs EXCEPT !.log = f.fs.temp, !.temp = <<>>, !.has_temp = FALSE]]

\* aof_rewrite_finish after its aof_flush_and_sync: rename and reopen
AofRenamed(f, io) ==
    IF io.rename = "fail"
    THEN [g |-> [f.g EXCEPT !.aof_rewriting = FALSE],
          fs |-> [f.fs EXCEPT !.temp = <<>>, !.has_temp = FALSE]]
    ELSE [g |-> [f.g EXCEPT !.aof_fd = IF io.reopen = "fail" THEN -1 ELSE 3,
                            !.aof_enabled = IF io.reopen = "fail" THEN FALSE
                                            ELSE f.g.aof_enabled,
                            !.aof_rewriting = FALSE],
          fs |-> [f.fs EXCEPT !.log = f.fs.temp, !.temp = <<>>, !.has_temp = FALSE]]

\* aof_rewrite_finish
aof_rewrite_finish(g0, fs0, t, io) ==
    IF ~g0.aof_rewriting THEN [g |-> g0, fs |-> fs0]
    ELSE AofRenamed(aof_flush_and_sync([g0 EXCEPT !.aof_rewrite_fd = -1], fs0, t, io), io)

\* aof_rewrite once the side file is open
AofRewriteDone(f) == [rv |-> 0, g |-> f.g, fs |-> f.fs]

AofRewriteRun(g1, fs, t, io) ==
    AofRewriteDone(aof_rewrite_finish(g1,
                       aof_rewrite_do(g1, [fs EXCEPT !.temp = <<>>, !.has_temp = TRUE], t),
                       t, io))

\* aof_rewrite: rv and the new state
aof_rewrite(g, fs, t, io) ==
    IF g.aof_rewriting THEN [rv |-> -1, g |-> g, fs |-> fs]
    ELSE IF io.open_temp = "fail"
    THEN [rv |-> -1, g |-> [g EXCEPT !.aof_rewriting = FALSE, !.aof_rewrite_fd = -1],
          fs |-> fs]
    ELSE AofRewriteRun([g EXCEPT !.aof_rewriting = TRUE, !.aof_rewrite_fd = 5], fs, t, io)

\* the reply of do_aof_rewrite
AofRewriteReply(r, out) ==
    IF r.rv < 0
    THEN [g |-> r.g, fs |-> r.fs, out |-> out_err(out, ERR_UNKNOWN, m_aof_failed)]
    ELSE [g |-> r.g, fs |-> r.fs, out |-> out_int(out, 1)]

\* do_aof_rewrite
do_aof_rewrite(g, fs, cmd, out, t, io) ==
    IF ~g.aof_enabled
    THEN [g |-> g, fs |-> fs, out |-> out_err(out, ERR_BAD_ARG, m_aof_not_enabled)]
    ELSE IF g.aof_rewriting
    THEN [g |-> g, fs |-> fs, out |-> out_err(out, ERR_BAD_ARG, m_aof_in_progress)]
    ELSE AofRewriteReply(aof_rewrite(g, fs, t, io), out)

(***************************************************************************)
(* do_request                                                               *)
(***************************************************************************)
CmdIs(cmd, n, name) == Len(cmd) = n /\ cmd[1] = name

\* a mutating command: logged, run, flushed
LoggedFlushed(f, out) == [g |-> f.g, fs |-> f.fs, out |-> out]

\* a mutating command that leaves the flush to a later request
LoggedRunUnflushed(x, fs, t, io) == LoggedFlushed([g |-> x.g, fs |-> fs], x.out)

LoggedRun(x, fs, t, io) ==
    LoggedFlushed(IF x.g.aof_enabled THEN aof_flush_and_sync(x.g, fs, t, io)
                  ELSE [g |-> x.g, fs |-> fs],
                  x.out)

\* the command appended to the AOF buffer before its handler runs
LoggedG(g, cmd) ==
    IF g.aof_enabled THEN [g EXCEPT !.aof_buf = aof_write_command(g.aof_buf, cmd)]
    ELSE g

ReadOnly(fs, x) == [g |-> x.g, fs |-> fs, out |-> x.out]

\* the else-if chain over (cmd.size(), cmd[0]); no two of its tests hold together
do_request(g, fs, cmd, out, t, io) ==
    CASE CmdIs(cmd, 2, s_get) -> ReadOnly(fs, do_get(g, cmd, out, t))
      [] CmdIs(cmd, 3, s_set) ->
            LoggedRun(do_set(LoggedG(g, cmd), cmd, out, t), fs, t, io)
      [] CmdIs(cmd, 2, s_del) ->
            LoggedRun(do_del(LoggedG(g, cmd), cmd, out, t), fs, t, io)
      [] CmdIs(cmd, 3, s_pexpire) ->
            LoggedRun(do_expire(LoggedG(g, cmd), cmd, out, t), fs, t, io)
      [] CmdIs(cmd, 2, s_pttl) -> ReadOnly(fs, do_ttl(g, cmd, out, t))
      [] CmdIs(cmd, 1, s_keys) -> ReadOnly(fs, do_keys(g, cmd, out, t))
      [] CmdIs(cmd, 4, s_zadd) ->
            LoggedRun(do_zadd(LoggedG(g, cmd), cmd, out, t), fs, t, io)
      [] CmdIs(cmd, 3, s_zrem) ->
            LoggedRun(do_zrem(LoggedG(g, cmd), cmd, out, t), fs, t, io)
      [] CmdIs(cmd, 3, s_zscore) -> ReadOnly(fs, do_zscore(g, cmd, out, t))
      [] CmdIs(cmd, 6, s_zquery) -> ReadOnly(fs, do_zquery(g, cmd, out, t))
      [] CmdIs(cmd, 1, s_bgrewriteaof) -> do_aof_rewrite(g, fs, cmd, out, t, io)
      [] OTHER -> [g |-> g, fs |-> fs, out |-> out_err(out, ERR_UNKNOWN, m_unknown)]

(***************************************************************************)
(* load_aof_file                                                            *)
(***************************************************************************)
\* the for loop, were it to keep the bytes a short fread delivered
RECURSIVE LoadStrsKeepShort(_, _, _)
LoadStrsKeepShort(data, n, cmd) ==
    IF n = 0 THEN [cmd |-> cmd, rest |-> data]
    ELSE IF Len(data) < 4 THEN [cmd |-> cmd, rest |-> <<>>]
    ELSE LET len == FromU32LE(data)
             body == Drop(data, 4)
         IN IF Len(body) < len THEN [cmd |-> Append(cmd, body), rest |-> <<>>]
            ELSE LoadStrsKeepShort(Drop(body, len), n - 1, Append(cmd, Take(body, len)))

\* the for loop over the strings of one record: the strings read, the bytes
\* left in the file, and whether an fread came back short
RECURSIVE LoadStrs(_, _, _)
LoadStrs(data, n, cmd) ==
    IF n = 0 THEN [cmd |-> cmd, rest |-> data]
    ELSE IF Len(data) < 4 THEN [cmd |-> cmd, rest |-> <<>>]
    ELSE LET len == FromU32LE(data)
             body == Drop(data, 4)
         IN IF Len(body) < len THEN [cmd |-> cmd, rest |-> <<>>]
            ELSE LoadStrs(Drop(body, len), n - 1, Append(cmd, Take(body, len)))

\* the while loop: every record read is dispatched through do_request into
\* a response buffer of its own
RECURSIVE LoadLoop(_, _, _, _, _)
LoadLoop(g, fs, data, t, io) ==
    IF Len(data) < 4 THEN g
    ELSE LET nstr == FromU32LE(data)
         IN IF nstr > k_max_args THEN g
            ELSE LET r == LoadStrs(Drop(data, 4), nstr, <<>>)
                 IN LoadLoop(do_request(g, fs, r.cmd, Buffer(BufInitCap), t, io).g,
                             fs, r.rest, t, io)

\* load_aof_file
load_aof_file(g, fs, t, io) ==
    IF ~g.aof_enabled THEN g
    ELSE IF io.fopen = "fail" THEN [g EXCEPT !.aof_enabled = FALSE]
    ELSE [LoadLoop([g EXCEPT !.aof_enabled = FALSE], fs, fs.log, t, io)
            EXCEPT !.aof_enabled = TRUE]

\* aof_init
aof_init(g, fs, t, io) ==
    IF ~g.aof_enabled THEN g
    ELSE IF io.open_log = "fail" THEN [g EXCEPT !.aof_fd = -1, !.aof_enabled = FALSE]
    ELSE load_aof_file([g EXCEPT !.aof_fd = 3], fs, t, io)

(***************************************************************************)
(* Connections (server.cpp, response_begin .. handle_read).  A Conn is a   *)
(* record; g.fd2conn maps the fds that hold a Conn (every other slot is    *)
(* NULL); g.idle_list is the list from sentinel.next to sentinel.prev.     *)
(***************************************************************************)
k_max_msg == MaxMsg

Conn(fd, t) ==
    [fd |-> fd, want_read |-> TRUE, want_write |-> FALSE, want_close |-> FALSE,
     incoming |-> Buffer(BufInitCap), outgoing |-> Buffer(BufInitCap),
     last_active_ms |-> t]

\* response_begin: the buffer and the header position
response_begin(out) == [out |-> buf_append_u32(out, 0), header |-> out.size]

response_size(out, header) == out.size - header - 4

\* the length written at the front of outgoing instead of at the header
ResponseLenAtFront(o, header) == BufInsert(o, U32LE(response_size(o, header)), 0)

\* response_end
ResponseLen(o, header) == BufInsert(o, U32LE(response_size(o, header)), header)

response_end(out, header, ub) ==
    ResponseLen(IF response_size(out, header) > k_max_msg
                THEN out_err(BufResize(out, header + 4, ub), ERR_TOO_BIG, m_too_big)
                ELSE out,
                header)

\* what is recorded of one dispatched request
\* what one dispatched request did, as try_one_request saw it: the store, the
\* pending AOF bytes and the log before and after, the response body as
\* generated (`gen` bytes) and as left in outgoing by response_end, and what
\* write() on the log fd did during the request
NoStore == [db |-> {}, heap |-> <<>>, aof_buf |-> <<>>, log |-> <<>>]

NoEvent ==
    [valid |-> FALSE, fd |-> -1, t |-> 0, cmd |-> <<>>, reply |-> <<>>,
     pre |-> NoStore, post |-> NoStore, pre_out |-> <<>>, post_out |-> <<>>,
     out_size |-> 0, out_capacity |-> 0, out_head |-> 0, gen |-> 0, header |-> 0,
     aof_write |-> "full"]

StoreOf(g, fs) ==
    [db |-> g.db, heap |-> g.heap, aof_buf |-> BufContent(g.aof_buf), log |-> fs.log]

\* try_one_request: ok is its return value.  The stages below are its
\* statements in order, each taking what the earlier ones computed.
TryStop(g, fs, fd, c) ==
    [ok |-> FALSE, g |-> [g EXCEPT !.fd2conn[fd] = c], fs |-> fs, ev |-> NoEvent]

\* consume the request; o is outgoing after response_end
TryDone(g, fs, fd, t, io, conn, len, cmd, header, x, o) ==
    [ok |-> TRUE,
     g |-> [x.g EXCEPT !.fd2conn[fd] =
                [conn EXCEPT !.outgoing = o,
                             !.incoming = BufConsume(conn.incoming, 4 + len)]],
     fs |-> x.fs,
     ev |-> [valid |-> TRUE, fd |-> fd, t |-> t, cmd |-> cmd,
             reply |-> BufPeek(o, header + 4, o.size - header - 4),
             pre |-> StoreOf(g, fs), post |-> StoreOf(x.g, x.fs),
             pre_out |-> BufContent(conn.outgoing),
             post_out |-> BufContent(o),
             out_size |-> o.size, out_capacity |-> o.capacity, out_head |-> o.head,
             gen |-> response_size(x.out, header),
             header |-> header,
             aof_write |-> io.aof_write]]

\* response_end; x is what do_request gave
TryRespond(g, fs, fd, t, io, conn, len, cmd, header, x) ==
    TryDone(g, fs, fd, t, io, conn, len, cmd, header, x,
            response_end(x.out, header, io.ub))

\* do_request; b is what response_begin gave
TryDispatch(g, fs, fd, t, io, conn, len, cmd, b) ==
    TryRespond(g, fs, fd, t, io, conn, len, cmd, b.header,
               do_request(g, fs, cmd, b.out, t, io))

\* req is what parse_req gave
TryParsed(g, fs, fd, t, io, conn, len, req) ==
    IF req.rv < 0 THEN TryStop(g, fs, fd, [conn EXCEPT !.want_close = TRUE])
    ELSE TryDispatch(g, fs, fd, t, io, conn, len, req.out, response_begin(conn.outgoing))

\* len is the header read by peek_u32(0)
TryFramed(g, fs, fd, t, io, conn, len) ==
    IF len > k_max_msg THEN TryStop(g, fs, fd, [conn EXCEPT !.want_close = TRUE])
    ELSE IF 4 + len > conn.incoming.size THEN TryStop(g, fs, fd, conn)
    ELSE TryParsed(g, fs, fd, t, io, conn, len, parse_req(BufPeek(conn.incoming, 4, len)))

try_one_request(g, fs, fd, t, io) ==
    IF g.fd2conn[fd].incoming.size < 4 THEN TryStop(g, fs, fd, g.fd2conn[fd])
    ELSE TryFramed(g, fs, fd, t, io, g.fd2conn[fd],
                   BufPeekU32(g.fd2conn[fd].incoming, 0))

\* a handle_read that calls try_one_request once instead of looping
TryNextOnce(r, fd, t, io, ev, evs) ==
    IF r.ok
    THEN [g |-> r.g, fs |-> r.fs, ev |-> r.ev,
          evs |-> Append(evs, [cmd |-> r.ev.cmd, reply |-> r.ev.reply])]
    ELSE [g |-> r.g, fs |-> r.fs, ev |-> ev, evs |-> evs]

\* while (try_one_request(conn)) {}: the state after the loop, the last
\* request dispatched and the command and reply of each one dispatched
RECURSIVE TryLoop(_, _, _, _, _, _, _)
TryNext(r, fd, t, io, ev, evs) ==
    IF r.ok
    THEN TryLoop(r.g, r.fs, fd, t, io, r.ev,
                 Append(evs, [cmd |-> r.ev.cmd, reply |-> r.ev.reply]))
    ELSE [g |-> r.g, fs |-> r.fs, ev |-> ev, evs |-> evs]

TryLoop(g, fs, fd, t, io, ev, evs) ==
    TryNext(try_one_request(g, fs, fd, t, io), fd, t, io, ev, evs)

\* handle_write: `wrote` is what reached the socket, `abort` an assertion
\* that failed
SockRv(w, io) == IF io.sock_write = "short" THEN Max(1, w.rv) ELSE w.rv

\* handle_write, were it to want a read after every write()
HandleWrittenWantsRead(g, fd, conn, rv) ==
    [g |-> [g EXCEPT !.fd2conn[fd] =
               [conn EXCEPT !.outgoing = BufConsume(conn.outgoing, rv),
                            !.want_read = TRUE, !.want_write = FALSE]],
     wrote |-> ReadN(conn.outgoing.data, conn.outgoing.head, rv),
     abort |-> ""]

HandleWritten(g, fd, conn, rv) ==
    LET o == BufConsume(conn.outgoing, rv)
    IN [g |-> [g EXCEPT !.fd2conn[fd] =
                   [conn EXCEPT !.outgoing = o,
                                !.want_read = IF o.size = 0 THEN TRUE
                                              ELSE conn.want_read,
                                !.want_write = IF o.size = 0 THEN FALSE
                                               ELSE conn.want_write]],
        wrote |-> ReadN(conn.outgoing.data, conn.outgoing.head, rv),
        abort |-> ""]

handle_write(g, fd, io) ==
    IF g.fd2conn[fd].outgoing.size = 0
    THEN [g |-> g, wrote |-> <<>>, abort |-> "assert(conn->outgoing.size() > 0)"]
    ELSE IF io.sock_write = "eagain" THEN [g |-> g, wrote |-> <<>>, abort |-> ""]
    ELSE IF io.sock_write = "error"
    THEN [g |-> [g EXCEPT !.fd2conn[fd].want_close = TRUE], wrote |-> <<>>,
          abort |-> ""]
    ELSE HandleWritten(g, fd, g.fd2conn[fd],
                       SockRv(WriteSpan(g.fd2conn[fd].outgoing, io.sock_write), io))

\* handle_read; rd is what read() returned: rd.kind is "eagain", "error",
\* "eof" or "data", and rd.bytes the bytes read.  `appended` is what the
\* loop added to outgoing
ReadWritten(r, w, appended) ==
    [g |-> w.g, fs |-> r.fs, ev |-> r.ev, evs |-> r.evs,
     appended |-> appended, wrote |-> w.wrote, abort |-> w.abort]

\* after the loop: r is its result, size0 the size of outgoing before it
ReadDispatched(r, fd, io, size0) ==
    IF r.g.fd2conn[fd].outgoing.size > 0
    THEN ReadWritten(r,
                     handle_write([r.g EXCEPT !.fd2conn[fd].want_read = FALSE,
                                              !.fd2conn[fd].want_write = TRUE], fd, io),
                     Drop(BufContent(r.g.fd2conn[fd].outgoing), size0))
    ELSE [g |-> r.g, fs |-> r.fs, ev |-> r.ev, evs |-> r.evs,
          appended |-> Drop(BufContent(r.g.fd2conn[fd].outgoing), size0),
          wrote |-> <<>>, abort |-> ""]

handle_read(g, fs, fd, rd, t, io) ==
    LET conn == g.fd2conn[fd]
        same == [g |-> g, fs |-> fs, ev |-> NoEvent, evs |-> <<>>, appended |-> <<>>,
                 wrote |-> <<>>, abort |-> ""]
    IN IF rd.kind = "eagain" THEN same
       ELSE IF rd.kind = "error" \/ rd.kind = "eof"
       THEN [same EXCEPT !.g = [g EXCEPT !.fd2conn[fd].want_close = TRUE]]
       ELSE ReadDispatched(
                TryLoop([g EXCEPT !.fd2conn[fd].incoming = BufAppend(conn.incoming, rd.bytes)],
                        fs, fd, t, io, NoEvent, <<>>),
                fd, io, conn.outgoing.size)

\* a function without the argument x
Without(f, x) == [y \in DOMAIN f \ {x} |-> f[y]]

\* dlist_detach of the Conn's idle_node
dlist_detach(list, fd) == SelectSeq(list, LAMBDA x : x # fd)

\* conn_destroy, were it to leave the Conn in the idle list
conn_destroy_linked(g, fd) == [g EXCEPT !.fd2conn = Without(g.fd2conn, fd)]

\* conn_destroy
conn_destroy(g, fd) ==
    [g EXCEPT !.fd2conn = Without(g.fd2conn, fd),
              !.idle_list = dlist_detach(g.idle_list, fd)]

\* handle_accept, were it to link the Conn behind the sentinel
handle_accept_at_head(g, connfd, t) ==
    [g EXCEPT !.idle_list = <<connfd>> \o g.idle_list,
              !.fd2conn = (connfd :> Conn(connfd, t)) @@ g.fd2conn]

\* handle_accept after accept() returned connfd
handle_accept(g, connfd, t) ==
    [g EXCEPT !.idle_list = Append(g.idle_list, connfd),
              !.fd2conn = (connfd :> Conn(connfd, t)) @@ g.fd2conn]

(***************************************************************************)
(* Timers (server.cpp, next_timer_ms and process_timers)                    *)
(***************************************************************************)
k_idle_timeout_ms == 5 * 1000
k_max_works == MaxWorks

\* the conversion of a 64-bit difference to int32_t, at the scaled width
int32_t(x) ==
    IF x % (2 ^ TimeoutBits) >= 2 ^ (TimeoutBits - 1)
    THEN (x % (2 ^ TimeoutBits)) - 2 ^ TimeoutBits
    ELSE x % (2 ^ TimeoutBits)

\* next_timer_ms: the timeout handed to poll(), negative for none
next_timer_ms(g, t) ==
    LET idle == IF g.idle_list # <<>>
                THEN {g.fd2conn[g.idle_list[1]].last_active_ms + k_idle_timeout_ms}
                ELSE {}
        ttl == IF g.heap # <<>> THEN {g.heap[1].val} ELSE {}
        all == idle \cup ttl
        next_ms == CHOOSE x \in all : \A y \in all : x <= y
    IN IF all = {} THEN -1
       ELSE IF next_ms <= t THEN 0
       ELSE int32_t(next_ms - t)

\* the idle loop of process_timers
RECURSIVE IdleLoop(_, _)
IdleLoop(g, t) ==
    IF g.idle_list = <<>> THEN g
    ELSE LET conn == g.fd2conn[g.idle_list[1]]
         IN IF conn.last_active_ms + k_idle_timeout_ms >= t THEN g
            ELSE IdleLoop(conn_destroy(g, conn.fd), t)

\* the TTL loop of process_timers
RECURSIVE TtlLoop(_, _, _)
TtlLoop(g, t, nworks) ==
    IF g.heap # <<>> /\ g.heap[1].val < t
    THEN IF nworks >= k_max_works THEN entry_del(g, g.heap[1].ref)
         ELSE TtlLoop(entry_del(g, g.heap[1].ref), t, nworks + 1)
    ELSE g

\* process_timers
process_timers(g, t) == TtlLoop(IdleLoop(g, t), t, 0)

(***************************************************************************)
(* The state after main()'s initialization, and the inputs                  *)
(***************************************************************************)
\* g_data as constructed
InitG ==
    [db |-> {}, fd2conn |-> <<>>, idle_list |-> <<>>, heap |-> <<>>,
     thread_pool |-> <<>>,
     aof_fd |-> -1, aof_last_save_ms |-> 0, aof_buf |-> Buffer(BufInitCap),
     aof_enabled |-> TRUE, aof_rewrite_fd |-> -1, aof_rewriting |-> FALSE]

InitFiles == [log |-> <<>>, temp |-> <<>>, has_temp |-> FALSE, fsyncs |-> 0]

\* what one call of handle_read did to its connection
NoRead ==
    [valid |-> FALSE, fd |-> -1, n |-> 0, pre |-> NoStore, post |-> NoStore,
     incoming |-> <<>>, appended |-> <<>>, want_close |-> FALSE, destroyed |-> FALSE]

\* the observations of a run: the last request dispatched, the last
\* handle_read, whether a rewrite of the log was asked for, and per connection
\* the bytes the client sent, the bytes the server read, the bytes the client
\* received, the bytes appended to outgoing and the requests dispatched
InitHist ==
    [last |-> NoEvent, rd |-> NoRead, rewrote |-> FALSE, n |-> 0, nconn |-> 0,
     sent |-> <<>>, recv |-> <<>>, got |-> <<>>, out |-> <<>>, evs |-> <<>>, abort |-> ""]

\* every system call of the handler succeeds in full
IoOk ==
    [aof_write |-> "full", sock_write |-> "full", open_temp |-> "ok", rename |-> "ok",
     reopen |-> "ok", fopen |-> "ok", open_log |-> "ok", ub |-> "intact"]

\* argument strings
K1 == <<107>>
V1 == <<118>>
V2 == <<119>>
NameA == <<97>>
NameB == <<98>>
Str1 == <<49>>
Str2 == <<50>>
Str0 == <<48>>
StrNeg1 == <<45, 49>>
StrX == <<120>>
StrNan == <<110, 97, 110>>

\* the requests a client of the store sends
StoreCmds ==
    { <<s_get, K1>>, <<s_set, K1, V1>>, <<s_set, K1, V2>>, <<s_del, K1>>,
      <<s_pexpire, K1, Str1>>, <<s_pexpire, K1, StrNeg1>>, <<s_pexpire, K1, StrX>>,
      <<s_pttl, K1>>, <<s_keys>>,
      <<s_zadd, K1, Str1, NameA>>, <<s_zadd, K1, Str2, NameB>>, <<s_zadd, K1, Str1, <<>> >>,
      <<s_zadd, K1, StrNan, NameA>>,
      <<s_zrem, K1, NameA>>, <<s_zscore, K1, NameA>>,
      <<s_zquery, K1, Str1, <<>>, Str0, Str2>>,
      <<s_bgrewriteaof>>, <<s_keys, K1>> }

\* the record aof_write_command leaves in the log for one command
AofRecord(cmd) == BufContent(aof_write_command(Buffer(BufInitCap), cmd))

\* the frames a pipelining client sends: requests, and frames that break the
\* protocol (a length over k_max_msg, nstr over k_max_args, a string that
\* runs past the end of the frame, a byte left after the last string, a
\* string count the frame does not hold)
Str6 == <<54>>

PipeCmds ==
    { <<s_get, K1>>, <<s_set, K1, V1>>, <<s_zquery, K1, Str0, <<>>, Str0, Str6>> }

BadFrames ==
    { U32LE(k_max_msg + 1),
      U32LE(4) \o U32LE(k_max_args + 1),
      U32LE(10) \o U32LE(1) \o U32LE(5) \o <<97, 98>>,
      U32LE(10) \o U32LE(1) \o U32LE(1) \o <<97, 98>>,
      U32LE(9) \o U32LE(2) \o U32LE(1) \o <<97>> }

PipeFrames == {ReqFrame(cmd) : cmd \in PipeCmds} \cup BadFrames

\* how many bytes the network may deliver at a time, short of all
ChunkSizes == {3, 10}

\* the outcomes of the handlers' system calls, and of the copy past the end
\* of an allocation
PipeIOs == {IoOk, [IoOk EXCEPT !.ub = "clobbered"]}

\* the logs an earlier run of the server left behind
StoreLogs ==
    { <<>>,
      AofRecord(<<s_set, K1, V1>>),
      AofRecord(<<s_zadd, K1, Str1, NameA>>),
      AofRecord(<<s_zadd, K1, Str1, NameA>>) \o AofRecord(<<s_zadd, K1, Str2, NameB>>) }

NameC == <<99>>
Str3 == <<51>>

PipeLogs ==
    { <<>>,
      AofRecord(<<s_zadd, K1, Str1, NameA>>) \o AofRecord(<<s_zadd, K1, Str2, NameB>>)
        \o AofRecord(<<s_zadd, K1, Str3, NameC>>) }

(***************************************************************************)
(* The event loop of main() and its environment                             *)
(***************************************************************************)
\* the fds of the live connections, in fd2conn order
RECURSIVE SortInts(_)
SortInts(S) ==
    IF S = {} THEN <<>>
    ELSE LET m == CHOOSE x \in S : \A y \in S : x <= y IN <<m>> \o SortInts(S \ {m})

Revents(fd, errs) ==
    LET conn == g_data.fd2conn[fd]
    IN (IF conn.want_read /\ (net.sock[fd].tosend # <<>> \/ net.sock[fd].eof)
        THEN {"IN"} ELSE {})
       \cup (IF conn.want_write THEN {"OUT"} ELSE {})
       \cup (IF fd \in errs THEN {"ERR"} ELSE {})

\* time passes
Tick ==
    /\ now < MaxTime
    /\ now' = now + 1
    /\ UNCHANGED <<g_data, files, net, pc, ready, hist>>

\* main() builds poll_args and calls poll() with the timeout of next_timer_ms
PollCall ==
    /\ pc = "build"
    /\ pc' = "poll"
    /\ ready' = [timeout |-> next_timer_ms(g_data, now), t0 |-> now, listen |-> FALSE,
                 ev |-> <<>>]
    /\ UNCHANGED <<g_data, files, net, now, hist>>

\* poll() returns: some fd is ready or the timeout has run out
PollReturn(ErrSets) ==
    /\ pc = "poll"
    /\ \E errs \in ErrSets :
         LET fds == SortInts(DOMAIN g_data.fd2conn)
             hit == SelectSeq(fds, LAMBDA fd : Revents(fd, errs) # {})
             listen == net.pending > 0
         IN /\ errs \subseteq DOMAIN g_data.fd2conn
            /\ \/ listen
               \/ hit # <<>>
               \/ ready.timeout = 0
               \/ ready.timeout > 0 /\ now >= ready.t0 + ready.timeout
            /\ ready' = [ready EXCEPT !.listen = listen,
                           !.ev = [i \in 1..Len(hit) |->
                                     [fd |-> hit[i], revents |-> Revents(hit[i], errs)]]]
            /\ pc' = IF listen THEN "accept" ELSE "serve"
    /\ UNCHANGED <<g_data, files, net, now, hist>>

\* the lowest fd no connection holds (0..2 are the standard streams, 3 the
\* log, 4 the listening socket)
NextFd == CHOOSE fd \in 5..(5 + Cardinality(DOMAIN g_data.fd2conn)) :
            /\ fd \notin DOMAIN g_data.fd2conn
            /\ \A x \in 5..(fd - 1) : x \in DOMAIN g_data.fd2conn

\* the listening socket is ready: handle_accept
HandleAccept ==
    /\ pc = "accept"
    /\ g_data' = handle_accept(g_data, NextFd, now)
    /\ net' = [pending |-> net.pending - 1,
               sock |-> (NextFd :> [tosend |-> <<>>, unsent |-> <<>>, eof |-> FALSE])
                        @@ net.sock]
    /\ hist' = [hist EXCEPT !.sent = (NextFd :> <<>>) @@ hist.sent,
                            !.got = (NextFd :> <<>>) @@ hist.got,
                            !.recv = (NextFd :> <<>>) @@ hist.recv,
                            !.out = (NextFd :> <<>>) @@ hist.out,
                            !.evs = (NextFd :> <<>>) @@ hist.evs]
    /\ pc' = "serve"
    /\ UNCHANGED <<files, now, ready>>

\* what read(conn->fd, buf, sizeof(buf)) returns
ReadResult(fd) ==
    IF net.sock[fd].tosend # <<>> THEN [kind |-> "data", bytes |-> net.sock[fd].tosend]
    ELSE IF net.sock[fd].eof THEN [kind |-> "eof", bytes |-> <<>>]
    ELSE [kind |-> "eagain", bytes |-> <<>>]

\* one round of the loop over the ready connections, in the order of its
\* statements: the touch of the idle list, handle_read, handle_write and
\* conn_destroy.  r is the outcome of the POLLIN part, w of the POLLOUT part.
ServeStay(g1) ==
    [g |-> g1, fs |-> files, ev |-> NoEvent, evs |-> <<>>, appended |-> <<>>,
     wrote |-> <<>>, abort |-> ""]

ServeRead(g1, fd, ev, io) ==
    IF "IN" \in ev
    THEN IF ~g1.fd2conn[fd].want_read
         THEN [ServeStay(g1) EXCEPT !.abort = "assert(conn->want_read)"]
         ELSE handle_read(g1, files, fd, ReadResult(fd), now, io)
    ELSE ServeStay(g1)

ServeWrite(r, fd, ev, io) ==
    IF "OUT" \in ev /\ r.abort = ""
    THEN IF ~r.g.fd2conn[fd].want_write
         THEN [g |-> r.g, wrote |-> <<>>, abort |-> "assert(conn->want_write)"]
         ELSE handle_write(r.g, fd, io)
    ELSE [g |-> r.g, wrote |-> <<>>, abort |-> r.abort]

ServeClose(fd, ev, r, w, rec) ==
    LET close == "ERR" \in ev \/ w.g.fd2conn[fd].want_close
    IN /\ g_data' = IF close THEN conn_destroy(w.g, fd) ELSE w.g
       /\ files' = r.fs
       /\ net' = IF close THEN [net EXCEPT !.sock = Without(net.sock, fd)]
                 ELSE IF "IN" \in ev THEN [net EXCEPT !.sock[fd].tosend = <<>>]
                 ELSE net
       /\ hist' = [hist EXCEPT
                     !.last = IF r.ev.valid THEN r.ev ELSE hist.last,
                     !.rd = IF "IN" \in ev /\ r.abort = ""
                            THEN [valid |-> TRUE, fd |-> fd, n |-> Len(r.evs),
                                  pre |-> StoreOf(g_data, files),
                                  post |-> StoreOf(r.g, r.fs),
                                  incoming |-> BufContent(r.g.fd2conn[fd].incoming),
                                  appended |-> r.appended,
                                  want_close |-> w.g.fd2conn[fd].want_close,
                                  destroyed |-> close]
                            ELSE hist.rd,
                     !.rewrote = hist.rewrote
                                 \/ \E i \in 1..Len(r.evs) : r.evs[i].cmd = <<s_bgrewriteaof>>,
                     !.got[fd] = IF rec THEN hist.got[fd] \o r.wrote \o w.wrote
                                 ELSE <<>>,
                     !.evs[fd] = IF rec THEN hist.evs[fd] \o r.evs ELSE <<>>,
                     !.recv[fd] = IF rec /\ "IN" \in ev /\ r.abort = ""
                                  THEN hist.recv[fd] \o ReadResult(fd).bytes
                                  ELSE hist.recv[fd],
                     !.out[fd] = IF rec THEN hist.out[fd] \o r.appended ELSE <<>>,
                     !.abort = w.abort]

ServeOut(fd, ev, r, io, rec) == ServeClose(fd, ev, r, ServeWrite(r, fd, ev, io), rec)

ServeIn(fd, ev, g1, io, rec) == ServeOut(fd, ev, ServeRead(g1, fd, ev, io), io, rec)

Serve(IOs, rec) ==
    /\ pc = "serve"
    /\ ready.ev # <<>>
    /\ \E io \in IOs :
         ServeIn(ready.ev[1].fd, ready.ev[1].revents,
                 [g_data EXCEPT !.fd2conn[ready.ev[1].fd].last_active_ms = now,
                                !.idle_list = Append(dlist_detach(g_data.idle_list,
                                                                  ready.ev[1].fd),
                                                     ready.ev[1].fd)],
                 io, rec)
    /\ ready' = [ready EXCEPT !.ev = Tail(ready.ev)]
    /\ UNCHANGED <<now, pc>>

\* the end of the iteration: process_timers
ProcessTimers ==
    /\ pc = "serve"
    /\ ready.ev = <<>>
    /\ g_data' = process_timers(g_data, now)
    /\ net' = [net EXCEPT !.sock = [fd \in DOMAIN g_data'.fd2conn |-> net.sock[fd]]]
    /\ pc' = "build"
    /\ UNCHANGED <<files, now, ready, hist>>

\* a client connects
ClientConnect(MaxConns) ==
    /\ pc = "poll"
    /\ net.pending = 0
    /\ hist.nconn < MaxConns
    /\ net' = [net EXCEPT !.pending = 1]
    /\ hist' = [hist EXCEPT !.nconn = hist.nconn + 1]
    /\ UNCHANGED <<g_data, files, now, pc, ready>>

\* a client sends one whole request and waits for the reply
ClientRequest(Cmds, rec) ==
    /\ pc = "poll"
    /\ hist.n < MaxCmds
    /\ \E fd \in DOMAIN g_data.fd2conn, cmd \in Cmds :
         /\ net.sock[fd].tosend = <<>>
         /\ g_data.fd2conn[fd].want_read
         /\ net' = [net EXCEPT !.sock[fd].tosend = ReqFrame(cmd)]
         /\ hist' = [hist EXCEPT !.n = hist.n + 1,
                                 !.sent[fd] = IF rec THEN hist.sent[fd] \o ReqFrame(cmd)
                                              ELSE <<>>]
    /\ UNCHANGED <<g_data, files, now, pc, ready>>

\* main() up to the event loop: aof_init replays the log it finds
Start(Logs) ==
    /\ \E log \in Logs : files = [InitFiles EXCEPT !.log = log]
    /\ g_data = aof_init(InitG, files, 0, IoOk)
    /\ net = [pending |-> 0, sock |-> <<>>]
    /\ now = 0
    /\ pc = "build"
    /\ ready = [timeout |-> -1, t0 |-> 0, listen |-> FALSE, ev |-> <<>>]
    /\ hist = InitHist

\* a client writes one more frame behind what it wrote before; the network
\* has delivered what was written earlier and delivers this frame whole or
\* only its first bytes
ClientPipe(Frames) ==
    /\ pc = "poll"
    /\ hist.n < MaxFrames
    /\ \E fd \in DOMAIN g_data.fd2conn, f \in Frames :
         \E k \in {Len(f)} \cup {c \in ChunkSizes : c < Len(f)} :
            /\ net' = [net EXCEPT !.sock[fd].tosend = @ \o net.sock[fd].unsent \o Take(f, k),
                                  !.sock[fd].unsent = Drop(f, k)]
            /\ hist' = [hist EXCEPT !.n = hist.n + 1, !.sent[fd] = @ \o f]
    /\ UNCHANGED <<g_data, files, now, pc, ready>>

\* the network delivers the rest of what a client wrote
Deliver ==
    /\ pc = "poll"
    /\ \E fd \in DOMAIN g_data.fd2conn :
         /\ net.sock[fd].unsent # <<>>
         /\ net' = [net EXCEPT !.sock[fd].tosend = @ \o net.sock[fd].unsent,
                               !.sock[fd].unsent = <<>>]
    /\ UNCHANGED <<g_data, files, now, pc, ready, hist>>

Init == Start(StoreLogs)

Next ==
    \/ Tick
    \/ PollCall
    \/ PollReturn({{}})
    \/ HandleAccept
    \/ Serve({IoOk}, FALSE)
    \/ ProcessTimers
    \/ ClientConnect(1)
    \/ ClientRequest(StoreCmds, FALSE)

Spec == Init /\ [][Next]_vars

\* clients that pipeline requests and break the protocol; the clock stands
InitPipe == Start(PipeLogs)

NextPipe ==
    \/ PollCall
    \/ PollReturn({{}})
    \/ HandleAccept
    \/ Serve(PipeIOs, TRUE)
    \/ ProcessTimers
    \/ ClientConnect(1)
    \/ ClientPipe(PipeFrames)
    \/ Deliver

SpecPipe == InitPipe /\ [][NextPipe]_vars

(***************************************************************************)
(* The event loop over the span of the idle timeout: two connections, keys  *)
(* with deadlines, and a clock that reaches the deadlines                   *)
(***************************************************************************)
K2 == <<108>>
K3 == <<109>>
K4 == <<110>>

\* a TTL whose deadline lies 2^(TimeoutBits - 1) ms or more ahead at every
\* instant of IdleTimes
FarTtl == 2 ^ (TimeoutBits - 1) + 2 * k_idle_timeout_ms + 10

\* set key v; pexpire key ms
KeyWithTtl(key, ms) ==
    AofRecord(<<s_set, key, V1>>) \o AofRecord(<<s_pexpire, key, to_string_int(ms)>>)

IdleLogs ==
    { <<>>,
      KeyWithTtl(K1, FarTtl),
      KeyWithTtl(K1, 1) \o KeyWithTtl(K2, 1) \o KeyWithTtl(K3, 1) \o KeyWithTtl(K4, 1) }

IdleCmds == { <<s_get, K1>>, <<s_pexpire, K1, Str1>> }

\* the instants the clock shows
IdleTimes ==
    { 1, 2, k_idle_timeout_ms, k_idle_timeout_ms + 1, k_idle_timeout_ms + 2,
      2 * k_idle_timeout_ms + 3 }

\* the last of them; the clients are silent from then on
LastIdleTime == 2 * k_idle_timeout_ms + 3

\* the server sleeps in poll() and no fd is ready
Quiet ==
    /\ pc = "poll"
    /\ net.pending = 0
    /\ \A fd \in DOMAIN g_data.fd2conn : Revents(fd, {}) = {}

\* time passes, up to one of the instants of Times
Elapse(Times, last) ==
    /\ \E t \in Times :
         /\ t > now
         /\ t = last => Quiet
         /\ now' = t
    /\ UNCHANGED <<g_data, files, net, pc, ready, hist>>

InitIdle == Start(IdleLogs)

NextIdle ==
    \/ Elapse(IdleTimes, LastIdleTime)
    \/ PollCall
    \/ PollReturn({{}})
    \/ HandleAccept
    \/ Serve({IoOk}, FALSE)
    \/ ProcessTimers
    \/ (now < LastIdleTime /\ ClientConnect(2))
    \/ (now < LastIdleTime /\ ClientRequest(IdleCmds, FALSE))

\* the steps of Serve, told by what they do to ready: the steps that take the
\* first event off ready.ev
ServeStep ==
    /\ pc = "serve"
    /\ ready.ev # <<>>
    /\ ready' = [ready EXCEPT !.ev = Tail(ready.ev)]

\* the steps of ProcessTimers, told by what they do to pc: the last step of an
\* iteration of main()'s loop
TimersStep ==
    /\ pc = "serve"
    /\ ready.ev = <<>>
    /\ pc' = "build"

\* the loop of main() always takes its next step, and the clock goes on.  Serve
\* and ProcessTimers are enabled whenever their guards hold, so fairness on
\* ServeStep and TimersStep is weak fairness on Serve and ProcessTimers
SpecIdle ==
    /\ InitIdle
    /\ [][NextIdle]_vars
    /\ WF_vars(PollCall)
    /\ WF_vars(PollReturn({{}}))
    /\ WF_vars(HandleAccept)
    /\ WF_ready(ServeStep)
    /\ WF_pc(TimersStep)
    /\ SF_vars(Elapse(IdleTimes, LastIdleTime))

(***************************************************************************)
(* The replay of a log whose last record was cut short: the server starts   *)
(* on a log the write path produced, cut at a byte offset inside its last   *)
(* record                                                                   *)
(***************************************************************************)
V3 == <<120, 121>>

\* the commands the write path logs
LoadCmds ==
    { <<s_set, K1, V1>>, <<s_set, K1, V3>>, <<s_set, K2, V1>>, <<s_del, K1>>,
      <<s_pexpire, K1, Str1>>, <<s_zadd, K1, Str1, NameA>>, <<s_zadd, K1, Str2, <<>> >>,
      <<s_zrem, K1, NameA>> }

\* the logs of one or two records
LoadHeads == {<<>>} \cup {AofRecord(cmd) : cmd \in LoadCmds}

\* main() before aof_init, on a log cut inside its last record
InitLoad ==
    /\ \E head \in LoadHeads, cmd \in LoadCmds :
         \E n \in 1..(Len(AofRecord(cmd)) - 1) :
            files = [InitFiles EXCEPT !.log = head \o Take(AofRecord(cmd), n)]
    /\ g_data = InitG
    /\ net = [pending |-> 0, sock |-> <<>>]
    /\ now = 0
    /\ pc = "load"
    /\ ready = [timeout |-> -1, t0 |-> 0, listen |-> FALSE, ev |-> <<>>]
    /\ hist = InitHist

\* main() calls aof_init
LoadLog ==
    /\ pc = "load"
    /\ g_data' = aof_init(g_data, files, now, IoOk)
    /\ pc' = "build"
    /\ UNCHANGED <<files, net, now, ready, hist>>

NextLoad == LoadLog

SpecLoad == InitLoad /\ [][NextLoad]_vars

(***************************************************************************)
(* Startup on every kind of log, and the requests served afterwards: the    *)
(* log is empty, whole, cut inside a record, corrupt, or holds records of   *)
(* every kind, and fopen() of it succeeds or fails                          *)
(***************************************************************************)
ReplayLogs ==
    { <<>>,
      AofRecord(<<s_set, K1, V1>>),
      AofRecord(<<s_set, K1, V1>>) \o AofRecord(<<s_zadd, K2, Str1, NameA>>)
          \o AofRecord(<<s_pexpire, K2, Str1>>) \o AofRecord(<<s_zrem, K2, NameA>>)
          \o AofRecord(<<s_del, K1>>),
      AofRecord(<<s_set, K1, V1>>) \o AofRecord(<<s_bgrewriteaof>>),
      AofRecord(<<s_set, K1, V1>>) \o Take(AofRecord(<<s_set, K2, V1>>), 9),
      AofRecord(<<s_set, K1, V1>>) \o Take(AofRecord(<<s_set, K2, V1>>), 14),
      AofRecord(<<s_set, K1, V1>>) \o U32LE(k_max_args + 1) \o AofRecord(<<s_del, K1>>) }

ReplayIOs == { IoOk, [IoOk EXCEPT !.fopen = "fail"] }

ReplayCmds ==
    { <<s_get, K1>>, <<s_set, K1, V2>>, <<s_del, K1>>, <<s_pexpire, K1, Str1>>,
      <<s_zadd, K3, Str1, NameA>>, <<s_zrem, K2, NameA>> }

\* main() before aof_init
InitReplay ==
    /\ \E log \in ReplayLogs : files = [InitFiles EXCEPT !.log = log]
    /\ g_data = InitG
    /\ net = [pending |-> 0, sock |-> <<>>]
    /\ now = 0
    /\ pc = "load"
    /\ ready = [timeout |-> -1, t0 |-> 0, listen |-> FALSE, ev |-> <<>>]
    /\ hist = InitHist

\* main() calls aof_init, whose load_aof_file opens the log for reading
Replay ==
    /\ pc = "load"
    /\ \E io \in ReplayIOs : g_data' = aof_init(g_data, files, now, io)
    /\ pc' = "build"
    /\ UNCHANGED <<files, net, now, ready, hist>>

NextReplay ==
    \/ Replay
    \/ Tick
    \/ PollCall
    \/ PollReturn({{}})
    \/ HandleAccept
    \/ Serve({IoOk}, FALSE)
    \/ ProcessTimers
    \/ ClientConnect(1)
    \/ ClientRequest(ReplayCmds, FALSE)

SpecReplay == InitReplay /\ [][NextReplay]_vars

(***************************************************************************)
(* A Buffer under every sequence of its public operations.  The Buffer is   *)
(* g_data.aof_buf; hist records the last call and what was appended and     *)
(* consumed.                                                                *)
(***************************************************************************)
\* n bytes no earlier call has brought: from + 1 .. from + n
FreshBytes(from, n) == SubSeq([i \in 1..(from + n) |-> i], from + 1, from + n)

InitBufHist ==
    [op |-> "new", pre |-> Buffer(BufTestCap), d |-> <<>>, pos |-> 0, kept |-> <<>>,
     appended |-> 0, consumed |-> 0, fresh |-> 0, nops |-> 0, inserted |-> FALSE,
     shrunk |-> FALSE]

InitBuf ==
    /\ g_data = [InitG EXCEPT !.aof_buf = Buffer(BufTestCap)]
    /\ files = InitFiles
    /\ net = [pending |-> 0, sock |-> <<>>]
    /\ now = 0
    /\ pc = "buffer"
    /\ ready = [timeout |-> -1, t0 |-> 0, listen |-> FALSE, ev |-> <<>>]
    /\ hist = InitBufHist

\* no call has copied past the end of an allocation or left size or an index
\* outside it; what the calls do after that is not defined, and the run ends
BufSound(b) ==
    /\ Len(b.data) = b.capacity
    /\ b.head < b.capacity
    /\ b.tail <= b.capacity
    /\ b.size <= b.capacity

\* the call recorded in hist
BufCalled(op, d, pos) ==
    [hist EXCEPT !.op = op, !.pre = g_data.aof_buf, !.d = d, !.pos = pos,
                 !.nops = hist.nops + 1]

\* append(data, len)
BufOpAppend ==
    /\ hist.nops < MaxBufOps
    /\ BufSound(g_data.aof_buf)
    /\ \E len \in 1..MaxBufLen :
         /\ g_data' = [g_data EXCEPT
                         !.aof_buf = BufAppend(g_data.aof_buf, FreshBytes(hist.fresh, len))]
         /\ hist' = [BufCalled("append", FreshBytes(hist.fresh, len), 0) EXCEPT
                         !.kept = hist.kept \o FreshBytes(hist.fresh, len),
                         !.appended = hist.appended + len,
                         !.fresh = hist.fresh + len]
    /\ UNCHANGED <<files, net, now, pc, ready>>

\* consume(len) with len <= size()
BufOpConsume ==
    /\ hist.nops < MaxBufOps
    /\ BufSound(g_data.aof_buf)
    /\ \E len \in 1..g_data.aof_buf.size :
         /\ g_data' = [g_data EXCEPT !.aof_buf = BufConsume(g_data.aof_buf, len)]
         /\ hist' = [BufCalled("consume", <<>>, len) EXCEPT
                         !.kept = Drop(hist.kept, len),
                         !.consumed = hist.consumed + len]
    /\ UNCHANGED <<files, net, now, pc, ready>>

\* resize(new_capacity)
BufOpResize ==
    /\ hist.nops < MaxBufOps
    /\ BufSound(g_data.aof_buf)
    /\ \E new_capacity \in 1..MaxBufCap, ub \in {"intact", "clobbered"} :
         /\ g_data' = [g_data EXCEPT !.aof_buf = BufResize(g_data.aof_buf, new_capacity, ub)]
         /\ hist' = [BufCalled("resize", <<>>, new_capacity) EXCEPT
                         !.shrunk = hist.shrunk \/ new_capacity < g_data.aof_buf.size]
    /\ UNCHANGED <<files, net, now, pc, ready>>

\* insert(data, len, pos) with pos < size()
BufOpInsert ==
    /\ hist.nops < MaxBufOps
    /\ BufSound(g_data.aof_buf)
    /\ \E len \in 1..MaxBufLen, pos \in 0..(g_data.aof_buf.size - 1) :
         /\ g_data' = [g_data EXCEPT
                         !.aof_buf = BufInsert(g_data.aof_buf, FreshBytes(hist.fresh, len), pos)]
         /\ hist' = [BufCalled("insert", FreshBytes(hist.fresh, len), pos) EXCEPT
                         !.fresh = hist.fresh + len,
                         !.inserted = TRUE]
    /\ UNCHANGED <<files, net, now, pc, ready>>

NextBuf ==
    \/ BufOpAppend
    \/ BufOpConsume
    \/ BufOpResize
    \/ BufOpInsert

SpecBuf == InitBuf /\ [][NextBuf]_vars

(***************************************************************************)
(* The log under failing and short writes: the clock crosses the one-second *)
(* gate of fsync, write() on the log fd fails or falls short, the log is    *)
(* rewritten, and two clients pipeline mutating commands                    *)
(***************************************************************************)
AofCmds == { <<s_set, K1, V1>>, <<s_del, K1>>, <<s_bgrewriteaof>> }

AofFrames == {ReqFrame(cmd) : cmd \in AofCmds}

\* write() on the log fd succeeds in full, fails, or writes half of the span;
\* open() of the side file, rename() over the log or open() of the rewritten
\* log fails
AofIOs ==
    { IoOk, [IoOk EXCEPT !.aof_write = "fail"], [IoOk EXCEPT !.aof_write = "short"],
      [IoOk EXCEPT !.open_temp = "fail"], [IoOk EXCEPT !.rename = "fail"],
      [IoOk EXCEPT !.reopen = "fail"] }

\* the instants the clock shows: past one second, exactly one second later,
\* and past that
AofTimes == { 1001, 2001, 2002 }

\* a client writes one more request behind what it wrote before and the
\* network delivers it whole
ClientSend(Frames) ==
    /\ pc = "poll"
    /\ hist.n < MaxSends
    /\ \E fd \in DOMAIN g_data.fd2conn, f \in Frames :
         /\ net' = [net EXCEPT !.sock[fd].tosend = @ \o f]
         /\ hist' = [hist EXCEPT !.n = hist.n + 1, !.sent[fd] = @ \o f]
    /\ UNCHANGED <<g_data, files, now, pc, ready>>

InitAof == Start({<<>>})

NextAof ==
    \/ (pc = "poll" /\ Elapse(AofTimes, 0))
    \/ PollCall
    \/ PollReturn({{}})
    \/ HandleAccept
    \/ Serve(AofIOs, TRUE)
    \/ ProcessTimers
    \/ ClientConnect(2)
    \/ ClientSend(AofFrames)

SpecAof == InitAof /\ [][NextAof]_vars

(***************************************************************************)
(* The life of connections: clients connect, pipeline requests, break the   *)
(* protocol, close or fall silent; write() on a socket writes all, writes   *)
(* less, returns EAGAIN or fails; poll() reports POLLERR; the idle timer    *)
(* runs out; the fd of a closed connection is handed out again              *)
(***************************************************************************)
ConnFrames == { ReqFrame(<<s_get, K1>>), U32LE(k_max_msg + 1) }

ConnIOs ==
    { IoOk, [IoOk EXCEPT !.sock_write = "short"], [IoOk EXCEPT !.sock_write = "eagain"],
      [IoOk EXCEPT !.sock_write = "error"] }

\* the instants the clock shows: a connection accepted at 0 is idle for too
\* long at the second and one accepted at 1 at the third
ConnTimes == { 1, k_idle_timeout_ms + 1, k_idle_timeout_ms + 2 }


\* a client closes its end
ClientClose ==
    /\ pc = "poll"
    /\ \E fd \in DOMAIN g_data.fd2conn :
         /\ ~net.sock[fd].eof
         /\ net' = [net EXCEPT !.sock[fd].eof = TRUE]
    /\ UNCHANGED <<g_data, files, now, pc, ready, hist>>

InitConn == Start({<<>>})

NextConn ==
    \/ (pc = "poll" /\ Elapse(ConnTimes, 0))
    \/ PollCall
    \/ PollReturn({{}, {5}})
    \/ HandleAccept
    \/ Serve(ConnIOs, FALSE)
    \/ ProcessTimers
    \/ (Cardinality(DOMAIN g_data.fd2conn) < MaxLive /\ ClientConnect(MaxAccepts))
    \/ ClientSend(ConnFrames)
    \/ ClientClose

SpecConn == InitConn /\ [][NextConn]_vars

(***************************************************************************)
(* Keys with deadlines: two strings and a sorted set too large to be freed  *)
(* on the main thread, with and without deadlines; a client deletes keys,   *)
(* sets and removes deadlines and changes values while the deadlines pass,  *)
(* and the worker thread frees what it is handed.  The log could not be     *)
(* opened, so that the store is what the clients made it.                   *)
(***************************************************************************)
\* the members of a sorted set of k_large_container_size + 1 members
BigName(i) == <<97 + (i % 26), 97 + ((i \div 26) % 26), 97 + (i \div 676)>>

BigSet == {[name |-> BigName(i), score |-> str2dbl(Str1).out] : i \in 0..k_large_container_size}

\* the requests of cmds dispatched one after the other at the instant t
RECURSIVE Dispatched(_, _, _)
Dispatched(g, cmds, t) ==
    IF cmds = <<>> THEN g
    ELSE Dispatched(do_request(g, InitFiles, Head(cmds), Buffer(BufInitCap), t, IoOk).g,
                    Tail(cmds), t)

\* the deadlines the keys start with; -1 is none
TtlChoices == {-1, 2, 4}

\* the store after set K1, set K2, the zadds of BigSet on K3 and a pexpire on
\* each of the three keys
Seeded(g, a, b, c) ==
    Dispatched([g EXCEPT !.db = Dispatched(g, << <<s_set, K1, V1>>, <<s_set, K2, V1>> >>, 0).db
                                    \cup {[entry_new(T_ZSET, K3) EXCEPT !.zset = BigSet]}],
               << <<s_pexpire, K1, to_string_int(a)>>, <<s_pexpire, K2, to_string_int(b)>>,
                  <<s_pexpire, K3, to_string_int(c)>> >>,
               0)

TtlCmds ==
    { <<s_del, K1>>, <<s_del, K3>>, <<s_pexpire, K1, Str1>>, <<s_pexpire, K2, StrNeg1>>,
      <<s_pexpire, K3, Str1>>, <<s_zrem, K3, BigName(0)>>, <<s_set, K4, V1>> }

\* the instants the clock shows: deadlines 2 and 4 have passed at 3 and 5
TtlTimes == { 1, 3, 5 }

InitTtl ==
    /\ files = InitFiles
    /\ \E a, b \in TtlChoices, c \in {-1, 2} :
         g_data = Seeded(aof_init(InitG, files, 0, [IoOk EXCEPT !.open_log = "fail"]),
                         a, b, c)
    /\ net = [pending |-> 0, sock |-> <<>>]
    /\ now = 0
    /\ pc = "build"
    /\ ready = [timeout |-> -1, t0 |-> 0, listen |-> FALSE, ev |-> <<>>]
    /\ hist = InitHist

\* a worker of the thread pool takes the task at the head of the queue and
\* runs entry_del_func on it
Worker ==
    /\ g_data.thread_pool # <<>>
    /\ g_data' = [g_data EXCEPT !.thread_pool = Tail(g_data.thread_pool)]
    /\ UNCHANGED <<files, net, now, pc, ready, hist>>

NextTtl ==
    \/ (pc = "poll" /\ Elapse(TtlTimes, 0))
    \/ PollCall
    \/ PollReturn({{}})
    \/ HandleAccept
    \/ Serve({IoOk}, FALSE)
    \/ ProcessTimers
    \/ ClientConnect(1)
    \/ ClientRequest(TtlCmds, FALSE)
    \/ Worker

SpecTtl == InitTtl /\ [][NextTtl]_vars

(***************************************************************************)
(* What a client can observe of a store                                     *)
(***************************************************************************)
Str9 == <<57>>

\* the global state holding the store s and nothing else
QueryG(s) == [InitG EXCEPT !.db = s.db, !.heap = s.heap, !.aof_enabled = FALSE]

\* the response body the dispatcher gives to cmd on the store s at time t
ReplyOn(s, cmd, t) ==
    BufContent(do_request(QueryG(s), InitFiles, cmd, Buffer(BufInitCap), t, IoOk).out)

\* the value of an INT reply (values here are below 2^23 in magnitude)
IntOf(reply) ==
    reply[2] + 256 * reply[3] + 65536 * reply[4] - (IF reply[9] = 255 THEN 16777216 ELSE 0)

QueryCmds ==
    { <<s_get, K1>>, <<s_keys>>, <<s_zscore, K1, NameA>>, <<s_zscore, K1, NameB>>,
      <<s_zscore, K1, <<>> >>, <<s_zquery, K1, Str0, <<>>, Str0, Str9>> }

\* two stores answer alike: the same bytes to get, keys, zscore and zquery,
\* and pttl values at most 1 ms apart
SameObservable(s1, s2, t) ==
    /\ \A q \in QueryCmds : ReplyOn(s1, q, t) = ReplyOn(s2, q, t)
    /\ LET a == IntOf(ReplyOn(s1, <<s_pttl, K1>>, t))
           b == IntOf(ReplyOn(s2, <<s_pttl, K1>>, t))
       IN a - b <= 1 /\ b - a <= 1

\* the store a fresh server holds after replaying `log` at time t
Replayed(log, t) ==
    StoreOf(aof_init(InitG, [InitFiles EXCEPT !.log = log], t, IoOk), InitFiles)

IsWrite(cmd) ==
    \/ CmdIs(cmd, 3, s_set) \/ CmdIs(cmd, 2, s_del) \/ CmdIs(cmd, 3, s_pexpire)
    \/ CmdIs(cmd, 4, s_zadd) \/ CmdIs(cmd, 3, s_zrem)

IsErr(reply) == reply # <<>> /\ reply[1] = TAG_ERR

(***************************************************************************)
(* Claims                                                                   *)
(***************************************************************************)
\* C1: replaying the log the write path produced (no rewrite asked for,
\* nothing pending in the AOF buffer) into an empty store gives a store that
\* answers get, keys, zscore, zquery and pttl (within 1 ms) as the live store
\* does, whatever time passed and whichever keys the timers expired.
C1_ReplayReproducesStore ==
    (~hist.rewrote /\ g_data.aof_buf.size = 0)
        => SameObservable(StoreOf(g_data, files), Replayed(files.log, now), now)

\* C2: after a bgrewriteaof that replied INT(1), replaying the main log into
\* an empty store reproduces the observable state the store had then.
C2_RewriteReproducesStore ==
    LET e == hist.last
    IN (e.valid /\ e.cmd = <<s_bgrewriteaof>> /\ ~IsErr(e.reply))
         => SameObservable(e.post, Replayed(e.post.log, e.t), e.t)

\* C3: a dispatched command adds its frame to the AOF (pending buffer or log)
\* exactly when it is a set/del/pexpire/zadd/zrem that did not reply ERR; a
\* write command that replied ERR leaves the buffer and the log as they were.
C3_FrameIffSuccessfulWrite ==
    LET e == hist.last
        before == e.pre.log \o e.pre.aof_buf
        after == e.post.log \o e.post.aof_buf
    IN (e.valid /\ e.cmd # <<s_bgrewriteaof>>)
         => /\ (after = before \o AofRecord(e.cmd)) <=> (IsWrite(e.cmd) /\ ~IsErr(e.reply))
            /\ (IsWrite(e.cmd) /\ IsErr(e.reply)) => after = before

\* the deadline of an Entry that has one
HasDeadline(s, e) == e.heap_idx # -1
DeadlineOf(s, e) == s.heap[e.heap_idx + 1].val

\* the store without the keys whose deadline lies before t
Purged(s, t) ==
    [s EXCEPT !.db = {e \in s.db : ~(HasDeadline(s, e) /\ DeadlineOf(s, e) < t)}]

IsQuery(cmd) ==
    \/ CmdIs(cmd, 2, s_get) \/ CmdIs(cmd, 2, s_pttl) \/ CmdIs(cmd, 1, s_keys)
    \/ CmdIs(cmd, 3, s_zscore) \/ CmdIs(cmd, 6, s_zquery)

\* C4: a get, pttl, keys, zscore or zquery dispatched at time t answers as if
\* every key whose deadline lies before t were absent.
C4_ExpiredKeyAbsent ==
    LET e == hist.last
    IN (e.valid /\ IsQuery(e.cmd)) => e.reply = ReplyOn(Purged(e.pre, e.t), e.cmd, e.t)

\* the reply the table of commands describes for `set k v`: NIL, and a get
\* of the key right after answers STR(v)
SetStored(e) ==
    /\ e.reply = <<TAG_NIL>>
    /\ ReplyOn(e.post, <<s_get, e.cmd[2]>>, e.t)
         = <<TAG_STR>> \o U32LE(Len(e.cmd[3])) \o e.cmd[3]

HoldsZSet(s, key) == HasKey(s.db, key) /\ Ent(s.db, key).type = T_ZSET

\* C6 (as stated): set k v replies NIL and the following get k replies
\* STR(v), whatever k held before.
C6_SetOverwritesAnything ==
    LET e == hist.last
    IN (e.valid /\ CmdIs(e.cmd, 3, s_set)) => SetStored(e)

\* C6 (amended): set k v replies NIL and the following get k replies STR(v)
\* when k was absent or held a string; when k holds a sorted set the reply is
\* ERR(BAD_TYP, "a non-string value exists") and the store is left as it was.
C6_SetOverwritesStrings ==
    LET e == hist.last
    IN (e.valid /\ CmdIs(e.cmd, 3, s_set))
         => IF HoldsZSet(e.pre, e.cmd[2])
            THEN /\ e.reply = <<TAG_ERR>> \o U32LE(ERR_BAD_TYP)
                                \o U32LE(Len(m_non_string_exists)) \o m_non_string_exists
                 /\ e.post.db = e.pre.db
                 /\ e.post.heap = e.pre.heap
            ELSE SetStored(e)

\* a set has been dispatched on a key holding a sorted set, and another on a
\* key holding a string of another value
C6_SetOnZSetSeen ==
    LET e == hist.last
    IN e.valid /\ CmdIs(e.cmd, 3, s_set) /\ HoldsZSet(e.pre, e.cmd[2]) /\ IsErr(e.reply)

\* the members of z from rank `from` on, as (name, score) records of a reply
RECURSIVE PairsBytes(_)
PairsBytes(s) ==
    IF s = <<>> THEN <<>>
    ELSE <<TAG_STR>> \o U32LE(Len(s[1].name)) \o s[1].name
         \o <<TAG_DBL>> \o DblLE(s[1].score) \o PairsBytes(Tail(s))

\* the array the description of zquery gives: min(limit, m) pairs from the
\* first member >= (score, name) moved by offset, m the members from there on
ZQueryExpected(z, score, name, offset, limit) ==
    LET key == [name |-> name, score |-> score]
        pos == 1 + Cardinality({x \in z : ZLess(x, key)})
        start == pos + offset
        m == IF pos > Cardinality(z) \/ start < 1 \/ start > Cardinality(z) THEN 0
             ELSE Cardinality(z) - start + 1
        p == IF limit <= 0 THEN 0 ELSE Min(limit, m)
    IN <<TAG_ARR>> \o U32LE(2 * p)
       \o (IF p = 0 THEN <<>> ELSE PairsBytes(SubSeq(ZSorted(z), start, start + p - 1)))

\* C7: on a sorted set, zquery k score name offset limit replies an array of
\* exactly min(limit, m) (name, score) pairs in ascending order whose count
\* field is twice the number of pairs; limit <= 0 gives the empty array.
C7_ZQueryPairs ==
    LET e == hist.last
    IN (/\ e.valid /\ CmdIs(e.cmd, 6, s_zquery)
        /\ HoldsZSet(e.pre, e.cmd[2])
        /\ str2dbl(e.cmd[3]).ok /\ str2int(e.cmd[5]).ok /\ str2int(e.cmd[6]).ok)
         => e.reply = ZQueryExpected(Ent(e.pre.db, e.cmd[2]).zset, str2dbl(e.cmd[3]).out,
                                     e.cmd[4], str2int(e.cmd[5]).out, str2int(e.cmd[6]).out)

\* C10: a command that replied ERR left the value store and the TTL heap as
\* they were, and the connection it came on is neither marked want_close nor
\* destroyed.
C10_ErrorLeavesState ==
    LET e == hist.last
    IN (e.valid /\ IsErr(e.reply) /\ hist.rd.valid /\ hist.rd.n > 0 /\ hist.rd.fd = e.fd)
         => /\ e.post.db = e.pre.db
            /\ e.post.heap = e.pre.heap
            /\ ~hist.rd.want_close
            /\ ~hist.rd.destroyed

\* a write command on a key of the wrong type has replied ERR(BAD_TYP)
C10_ErrorSeen ==
    LET e == hist.last
    IN /\ e.valid /\ IsWrite(e.cmd) /\ e.pre.db # {}
       /\ e.reply # <<>> /\ e.reply[1] = TAG_ERR /\ e.reply[2] = ERR_BAD_TYP
       /\ e.fd \in DOMAIN g_data.fd2conn

(***************************************************************************)
(* The wire protocol as a client reads it: frames of u32 len | u32 nstr |  *)
(* (u32 len | bytes)^nstr, split without the server's parser               *)
(***************************************************************************)
WireU32(s) == s[1] + 256 * s[2] + 65536 * s[3] + 16777216 * s[4]

\* the n strings that fill `body` exactly
RECURSIVE WireStrs(_, _)
WireStrs(body, n) ==
    IF n = 0 THEN [ok |-> body = <<>>, cmd |-> <<>>]
    ELSE IF Len(body) < 4 \/ Len(body) < 4 + WireU32(body) THEN [ok |-> FALSE, cmd |-> <<>>]
    ELSE LET rest == WireStrs(SubSeq(body, 5 + WireU32(body), Len(body)), n - 1)
         IN [ok |-> rest.ok, cmd |-> <<SubSeq(body, 5, 4 + WireU32(body))>> \o rest.cmd]

WireCmd(body) ==
    IF Len(body) < 4 \/ WireU32(body) > k_max_args THEN [ok |-> FALSE, cmd |-> <<>>]
    ELSE WireStrs(SubSeq(body, 5, Len(body)), WireU32(body))

\* the requests of the well-formed frames at the front of s, and whether what
\* comes after them is a protocol error (bad) or the start of a frame (rest)
RECURSIVE WireSplit(_, _)
WireSplit(s, cmds) ==
    IF Len(s) < 4 THEN [cmds |-> cmds, bad |-> FALSE, rest |-> s]
    ELSE IF WireU32(s) > k_max_msg THEN [cmds |-> cmds, bad |-> TRUE, rest |-> s]
    ELSE IF Len(s) < 4 + WireU32(s) THEN [cmds |-> cmds, bad |-> FALSE, rest |-> s]
    ELSE IF ~WireCmd(SubSeq(s, 5, 4 + WireU32(s))).ok
    THEN [cmds |-> cmds, bad |-> TRUE, rest |-> s]
    ELSE WireSplit(SubSeq(s, 5 + WireU32(s), Len(s)),
                   Append(cmds, WireCmd(SubSeq(s, 5, 4 + WireU32(s))).cmd))

HoldsFrame(s) == Len(s) >= 4 /\ WireU32(s) <= k_max_msg /\ Len(s) >= 4 + WireU32(s)

\* the response frames of the requests dispatched, in their order
RECURSIVE ReplyFrames(_)
ReplyFrames(evs) ==
    IF evs = <<>> THEN <<>>
    ELSE U32LE(Len(evs[1].reply)) \o evs[1].reply \o ReplyFrames(Tail(evs))

TooBigRecord == <<TAG_ERR>> \o U32LE(ERR_TOO_BIG) \o U32LE(Len(m_too_big)) \o m_too_big

\* C5: no response body in outgoing is longer than k_max_msg; for a command
\* whose body was, outgoing holds after response_end what it held before,
\* the 4-byte header and one ERR(TOO_BIG) record, nothing of the oversized
\* body; and the buffer keeps size <= capacity.
C5_OversizeYieldsOneError ==
    LET e == hist.last
    IN e.valid
         => /\ Len(e.reply) <= k_max_msg
            /\ e.gen > k_max_msg
                 => e.post_out = e.pre_out \o U32LE(Len(TooBigRecord)) \o TooBigRecord
            /\ e.out_size <= e.out_capacity

\* C8: on each connection the requests dispatched are the well-formed frames
\* received, in their order, and outgoing got their response frames in that
\* order; a handle_read that returns without want_close leaves no complete
\* frame in incoming.
C8_PipelineOrder ==
    /\ \A fd \in DOMAIN hist.recv :
         /\ Len(hist.evs[fd]) = Len(WireSplit(hist.recv[fd], <<>>).cmds)
         /\ \A i \in 1..Len(hist.evs[fd]) :
              hist.evs[fd][i].cmd = WireSplit(hist.recv[fd], <<>>).cmds[i]
         /\ hist.out[fd] = ReplyFrames(hist.evs[fd])
    /\ (hist.rd.valid /\ ~hist.rd.want_close) => ~HoldsFrame(hist.rd.incoming)

\* one read has dispatched two requests or more and left the connection open
C8_PipelinedSeen ==
    /\ hist.rd.valid /\ hist.rd.n >= 2 /\ ~hist.rd.want_close
    /\ Len(hist.evs[hist.rd.fd]) >= 2
    /\ hist.out[hist.rd.fd] # <<>>

\* C9: a frame that breaks the protocol (length over k_max_msg, nstr over
\* k_max_args, a string past the end of the frame, bytes after the last
\* string) gets no request dispatched and no response, leaves the store and
\* the AOF as the requests before it left them, sets want_close, and the
\* connection is destroyed in the same iteration of the event loop.
C9_ProtocolErrorClosesSilently ==
    (hist.rd.valid /\ WireSplit(hist.recv[hist.rd.fd], <<>>).bad)
      => /\ Len(hist.evs[hist.rd.fd]) = Len(WireSplit(hist.recv[hist.rd.fd], <<>>).cmds)
         /\ hist.out[hist.rd.fd] = ReplyFrames(hist.evs[hist.rd.fd])
         /\ hist.rd.post = (IF hist.rd.n > 0 THEN hist.last.post ELSE hist.rd.pre)
         /\ hist.rd.want_close
         /\ hist.rd.destroyed
         /\ hist.rd.fd \notin DOMAIN g_data.fd2conn

\* a read held a request and, behind it, a frame that breaks the protocol
C9_BadFrameSeen ==
    /\ hist.rd.valid /\ hist.rd.n > 0
    /\ WireSplit(hist.recv[hist.rd.fd], <<>>).bad
    /\ hist.rd.destroyed

\* an INT reply
IntReply(n) == <<TAG_INT>> \o I64LE(n)

\* the deadline the store s (db and heap) keeps for key k: -1 without a TTL
TtlState(s, k) ==
    IF Ent(s.db, k).heap_idx = -1 THEN -1 ELSE s.heap[Ent(s.db, k).heap_idx + 1].val

\* what pexpire k ms and pttl k answer and leave behind
C11_Dispatched ==
    LET e == hist.last
        k == e.cmd[2]
    IN /\ (e.valid /\ CmdIs(e.cmd, 3, s_pexpire) /\ str2int(e.cmd[3]).ok)
          => /\ e.reply = IntReply(IF HasKey(e.pre.db, k) THEN 1 ELSE 0)
             /\ HasKey(e.post.db, k) <=> HasKey(e.pre.db, k)
             /\ HasKey(e.pre.db, k)
                  => TtlState(e.post, k) = IF str2int(e.cmd[3]).out >= 0
                                           THEN e.t + str2int(e.cmd[3]).out
                                           ELSE -1
       /\ (e.valid /\ CmdIs(e.cmd, 2, s_pttl))
          => e.reply = IntReply(IF ~HasKey(e.pre.db, k) THEN -2
                                ELSE IF TtlState(e.pre, k) = -1 THEN -1
                                ELSE Max(0, TtlState(e.pre, k) - e.t))

\* a key that appears has no TTL, and the deadline of a key that stays
\* changes only by a pexpire on that key
C11_Step ==
    \A k \in {x.key : x \in g_data'.db} :
       IF ~HasKey(g_data.db, k) THEN TtlState(g_data', k) = -1
       ELSE TtlState(g_data', k) # TtlState(g_data, k)
              => /\ hist'.last.valid
                 /\ CmdIs(hist'.last.cmd, 3, s_pexpire)
                 /\ hist'.last.cmd[2] = k
                 /\ hist'.last.pre.db = g_data.db
                 /\ hist'.last.pre.heap = g_data.heap

\* C11: pexpire k ms replies 1 iff k exists, else 0; pttl k replies -2 iff k
\* is absent, -1 iff k has no TTL, else max(0, d - now) with d the time of
\* the latest pexpire k ms with ms >= 0 plus ms; a pexpire with negative ms,
\* and a delete followed by a re-creation, leave k without a TTL.
C11_ExpireTtlContract == []C11_Dispatched /\ [][C11_Step]_vars

\* a pexpire with negative ms has been dispatched on a key that had a TTL
C11_TtlSeen ==
    LET e == hist.last
    IN /\ e.valid /\ CmdIs(e.cmd, 3, s_pexpire) /\ HasKey(e.pre.db, e.cmd[2])
       /\ TtlState(e.pre, e.cmd[2]) # -1
       /\ str2int(e.cmd[3]).ok /\ str2int(e.cmd[3]).out < 0

(***************************************************************************)
(* The log as a reader of the file format sees it: records of u32 nstr |   *)
(* (u32 len | bytes)^nstr                                                   *)
(***************************************************************************)
\* the first n strings of data and what follows them
RECURSIVE FileStrs(_, _, _)
FileStrs(data, n, cmd) ==
    IF n = 0 THEN [ok |-> TRUE, cmd |-> cmd, rest |-> data]
    ELSE IF Len(data) < 4 \/ Len(data) < 4 + WireU32(data)
    THEN [ok |-> FALSE, cmd |-> cmd, rest |-> data]
    ELSE FileStrs(SubSeq(data, 5 + WireU32(data), Len(data)), n - 1,
                  Append(cmd, SubSeq(data, 5, 4 + WireU32(data))))

\* the commands of the records of a log; ok when it holds whole records only
RECURSIVE FileCmds(_, _)
FileCmds(data, cmds) ==
    IF data = <<>> THEN [ok |-> TRUE, cmds |-> cmds]
    ELSE IF Len(data) < 4 \/ WireU32(data) > Len(data) THEN [ok |-> FALSE, cmds |-> cmds]
    ELSE IF ~FileStrs(SubSeq(data, 5, Len(data)), WireU32(data), <<>>).ok
    THEN [ok |-> FALSE, cmds |-> cmds]
    ELSE FileCmds(FileStrs(SubSeq(data, 5, Len(data)), WireU32(data), <<>>).rest,
                  Append(cmds, FileStrs(SubSeq(data, 5, Len(data)), WireU32(data), <<>>).cmd))

\* the number of commands the description of the rewrite asks for: one per
\* string, one per member of a sorted set, one per remaining TTL
MinimalCount(s, t) ==
    LET Members(x) == IF x.type = T_ZSET THEN Cardinality(x.zset) ELSE 0
        Sets(x) == IF x.type = T_STR THEN 1 ELSE 0
        Ttls(x) == IF x.heap_idx # -1 /\ s.heap[x.heap_idx + 1].val - t > 0 THEN 1 ELSE 0
        f[S \in SUBSET s.db] ==
            IF S = {} THEN 0
            ELSE LET x == CHOOSE y \in S : TRUE
                 IN Members(x) + Sets(x) + Ttls(x) + f[S \ {x}]
    IN f[s.db]

\* cmds holds the commands that recreate the store s at time t
Recreates(cmds, s, t) ==
    \A x \in s.db :
       /\ x.type = T_STR => \E i \in 1..Len(cmds) : cmds[i] = <<s_set, x.key, x.str>>
       /\ x.type = T_ZSET =>
            \A m \in x.zset : \E i \in 1..Len(cmds) :
               /\ Len(cmds[i]) = 4 /\ cmds[i][1] = s_zadd /\ cmds[i][2] = x.key
               /\ cmds[i][4] = m.name
               /\ str2dbl(cmds[i][3]).ok /\ str2dbl(cmds[i][3]).out = m.score
       /\ (x.heap_idx # -1 /\ s.heap[x.heap_idx + 1].val - t > 0) =>
            \E i \in 1..Len(cmds) :
               /\ Len(cmds[i]) = 3 /\ cmds[i][1] = s_pexpire /\ cmds[i][2] = x.key
               /\ str2int(cmds[i][3]).ok
               /\ str2int(cmds[i][3]).out = s.heap[x.heap_idx + 1].val - t

\* C12: after a bgrewriteaof that replied INT(1) the main log holds exactly
\* one set per string, one zadd per member of each sorted set and one pexpire
\* per entry with a remaining TTL > 0, and nothing else.
C12_RewriteIsMinimal ==
    LET e == hist.last
    IN (e.valid /\ e.cmd = <<s_bgrewriteaof>> /\ e.reply = IntReply(1))
         => /\ FileCmds(e.post.log, <<>>).ok
            /\ Len(FileCmds(e.post.log, <<>>).cmds) = MinimalCount(e.pre, e.t)
            /\ Recreates(FileCmds(e.post.log, <<>>).cmds, e.pre, e.t)

(***************************************************************************)
(* C13: the threshold of the idle eviction                                  *)
(***************************************************************************)
\* the idle deadline of the connection fd
IdleDeadline(fd) == g_data.fd2conn[fd].last_active_ms + k_idle_timeout_ms

C13_Step ==
    TimersStep =>
        \A fd \in DOMAIN g_data.fd2conn :
            /\ IdleDeadline(fd) <= now => fd \notin DOMAIN g_data'.fd2conn
            /\ IdleDeadline(fd) > now => fd \in DOMAIN g_data'.fd2conn

\* C13: right after process_timers ran at the time now, no connection with
\* last_active_ms + 5000 <= now is left, and none with last_active_ms + 5000
\* > now was destroyed
C13_IdleThreshold == [][C13_Step]_vars

\* process_timers keeps exactly the connections whose deadline is now or later
C13_StrictStep ==
    TimersStep =>
        \A fd \in DOMAIN g_data.fd2conn :
            fd \in DOMAIN g_data'.fd2conn <=> IdleDeadline(fd) >= now

C13_StrictThreshold == [][C13_StrictStep]_vars

\* process_timers has destroyed one of two connections and kept the other
C13_Evicted ==
    /\ pc = "build"
    /\ hist.nconn = 2
    /\ net.pending = 0
    /\ Cardinality(DOMAIN g_data.fd2conn) = 1

(***************************************************************************)
(* C14: idle connections are destroyed in the end                           *)
(***************************************************************************)
\* the idle deadlines of all connections and the deadlines of all TTL timers
Deadlines ==
    {IdleDeadline(fd) : fd \in DOMAIN g_data.fd2conn}
        \cup {g_data.heap[i].val : i \in 1..Len(g_data.heap)}

\* while the server sleeps in poll(): the timeout is infinite only when there
\* is no timer, 0 when a deadline has passed, and never more than the time
\* left to the earliest deadline
C14_TimeoutBound ==
    pc = "poll" =>
        IF Deadlines = {} THEN ready.timeout < 0
        ELSE /\ ready.timeout >= 0
             /\ \A d \in Deadlines :
                  IF d <= ready.t0 THEN ready.timeout = 0
                  ELSE ready.timeout <= d - ready.t0

\* every connection is destroyed at some time (the clients fall silent in
\* every behavior)
C14_EveryConnDestroyed ==
    \A fd \in 5..6 :
        (fd \in DOMAIN g_data.fd2conn) ~> (fd \notin DOMAIN g_data.fd2conn)

\* C14: a connection that gets no readiness event from some time on is
\* destroyed, whatever other connections and TTL timers do, and the timeout of
\* poll() never exceeds the time left to the earliest idle or TTL deadline
C14_IdleDestroyed == []C14_TimeoutBound /\ C14_EveryConnDestroyed

(***************************************************************************)
(* C15: the bound on the expirations of one iteration                       *)
(***************************************************************************)
\* the keys whose TTL deadline has passed
ExpiredKeys ==
    {g_data.heap[i].ref : i \in {j \in 1..Len(g_data.heap) : g_data.heap[j].val < now}}

\* the keys a step removes from the database
RemovedKeys == {e.key : e \in g_data.db} \ {e.key : e \in g_data'.db}

C15_Step == TimersStep => Cardinality(RemovedKeys) <= k_max_works

\* C15: in one iteration of the event loop process_timers removes at most
\* k_max_works (2000) expired keys, however many TTL deadlines have passed
C15_ExpirationBound == [][C15_Step]_vars

\* process_timers removes expired keys only, all of them or k_max_works + 1
C15_StepPlusOne ==
    TimersStep =>
        /\ RemovedKeys \subseteq ExpiredKeys
        /\ Cardinality(RemovedKeys) <= k_max_works + 1
        /\ Cardinality(RemovedKeys) < k_max_works + 1 => RemovedKeys = ExpiredKeys

C15_BoundPlusOne == [][C15_StepPlusOne]_vars

(***************************************************************************)
(* C16: the replay of a log with a truncated tail                           *)
(***************************************************************************)
\* the length of the whole records at the front of data
RECURSIVE WholeLen(_)
WholeLen(data) ==
    IF Len(data) < 4 \/ WireU32(data) > Len(data) THEN 0
    ELSE IF ~FileStrs(SubSeq(data, 5, Len(data)), WireU32(data), <<>>).ok THEN 0
    ELSE LET rest == FileStrs(SubSeq(data, 5, Len(data)), WireU32(data), <<>>).rest
         IN (Len(data) - Len(rest)) + WholeLen(rest)

\* the strings of the cut record that are whole
CutStrs(data) ==
    LET tail == SubSeq(data, WholeLen(data) + 1, Len(data))
    IN IF Len(tail) < 4 THEN <<>>
       ELSE FileStrs(SubSeq(tail, 5, Len(tail)), WireU32(tail), <<>>).cmd

\* C16: the replay of a log cut at a byte offset inside its last record ends
\* with the store that the replay of the log without that record gives; the
\* command put together from the cut record changes nothing
C16_TruncatedTail ==
    pc = "build" =>
        /\ WholeLen(files.log) < Len(files.log)
        /\ g_data.db = Replayed(SubSeq(files.log, 1, WholeLen(files.log)), 0).db
        /\ g_data.heap = Replayed(SubSeq(files.log, 1, WholeLen(files.log)), 0).heap

\* a log was replayed whose first record is whole and left a key, and whose
\* cut record gave a command of two strings
C16_CutReplayed ==
    /\ pc = "build"
    /\ WholeLen(files.log) > 0
    /\ g_data.db # {}
    /\ Len(CutStrs(files.log)) = 2

(***************************************************************************)
(* C17 .. C20: the ring buffer                                              *)
(***************************************************************************)
\* the Buffer under test
TheBuf == g_data.aof_buf

\* C17: after any sequence of append, consume (n <= size) and resize,
\* peek(dst, 0, size) gives the bytes appended and not yet consumed, in the
\* order of the appends, and size is bytes appended minus bytes consumed
C17_RoundTrip ==
    (pc = "buffer" /\ ~hist.inserted) =>
        /\ BufPeek(TheBuf, 0, TheBuf.size) = hist.kept
        /\ TheBuf.size = hist.appended - hist.consumed

\* the same for the sequences in which no resize asks for less than size()
C17_RoundTripUnlessShrunk == ~hist.shrunk => C17_RoundTrip

\* C18: after every public operation (append, consume with n <= size, insert,
\* resize) head < capacity, tail = (head + size) mod capacity and
\* size <= capacity
C18_Structure ==
    (pc = "buffer" /\ hist.nops > 0) =>
        /\ TheBuf.head < TheBuf.capacity
        /\ TheBuf.tail = (TheBuf.head + TheBuf.size) % TheBuf.capacity
        /\ TheBuf.size <= TheBuf.capacity

\* the same with tail = capacity allowed where (head + size) mod capacity is
\* 0, for the sequences in which no resize asks for less than size()
C18_TailUpToCapacity ==
    (pc = "buffer" /\ hist.nops > 0 /\ ~hist.shrunk) =>
        /\ TheBuf.head < TheBuf.capacity
        /\ TheBuf.tail % TheBuf.capacity = (TheBuf.head + TheBuf.size) % TheBuf.capacity
        /\ TheBuf.tail <= TheBuf.capacity
        /\ TheBuf.size <= TheBuf.capacity

\* what get_continuous_data(pos) hands out, as the claim describes it
SpanAsClaimed(b, pos) ==
    IF pos >= b.size THEN [null |-> TRUE, at |-> 0, len |-> 0]
    ELSE [null |-> FALSE, at |-> (b.head + pos) % b.capacity,
          len |-> Min(b.size - pos, b.capacity - ((b.head + pos) % b.capacity))]

\* C19: for pos < size get_continuous_data(pos) hands out the address of the
\* byte at logical offset pos and the length min(size - pos, capacity -
\* ((head + pos) mod capacity)), at least 1, over bytes that are appended and
\* not consumed; for pos >= size it hands out (null, 0)
C19_ContiguousSpan ==
    pc = "buffer" =>
        \A pos \in 0..(TheBuf.size + 1) :
            /\ BufGetContinuousData(TheBuf, pos) = SpanAsClaimed(TheBuf, pos)
            /\ pos < TheBuf.size =>
                 /\ BufGetContinuousData(TheBuf, pos).len >= 1
                 /\ ReadN(TheBuf.data, BufGetContinuousData(TheBuf, pos).at,
                          SpanAsClaimed(TheBuf, pos).len)
                      = SubSeq(BufPeek(TheBuf, 0, TheBuf.size), pos + 1,
                               pos + SpanAsClaimed(TheBuf, pos).len)

\* what insert(d, Len(d), pos) leaves, as the claim describes it
InsertAsClaimed(old, d, pos) ==
    SubSeq(old, 1, pos) \o d \o SubSeq(old, pos + Len(d) + 1, Len(old))

\* C20: for pos < size, after insert(bytes, len, pos) the content is
\* old[0, pos) then bytes then old[pos + len, old size), and size is
\* max(old size, pos + len), wherever head and tail stand, for data that wraps
\* and for writes past the size and past the capacity
C20_InsertInPlace ==
    (pc = "buffer" /\ hist.op = "insert") =>
        /\ BufPeek(TheBuf, 0, TheBuf.size)
             = InsertAsClaimed(BufPeek(hist.pre, 0, hist.pre.size), hist.d, hist.pos)
        /\ TheBuf.size = Max(hist.pre.size, hist.pos + Len(hist.d))

\* the same for the inserts that stay within the capacity
C20_InsertWithinCapacity ==
    (hist.pos + Len(hist.d) <= hist.pre.capacity /\ ~hist.shrunk) => C20_InsertInPlace

(***************************************************************************)
(* C21: the framing of the responses                                        *)
(***************************************************************************)
\* the bytes response_begin .. response_end added to outgoing for the last
\* request dispatched
LastFrame ==
    SubSeq(hist.last.post_out, Len(hist.last.pre_out) + 1, Len(hist.last.post_out))

\* C21: the response of every dispatched request stands in outgoing behind
\* the unsent responses before it, which keep every byte, and starts with a
\* 4-byte length equal to the number of body bytes that follow it
C21_ResponseFraming ==
    hist.last.valid =>
        /\ Len(hist.last.post_out) >= Len(hist.last.pre_out) + 4
        /\ SubSeq(hist.last.post_out, 1, Len(hist.last.pre_out)) = hist.last.pre_out
        /\ SubSeq(LastFrame, 1, 4) = U32LE(Len(LastFrame) - 4)

\* the same for the responses that are not over k_max_msg as generated
C21_FramingWithinLimit == hist.last.gen <= k_max_msg => C21_ResponseFraming

\* a response was framed behind an unsent one, with its header across the
\* wrap point of the ring
C21_StraddlingHeader ==
    /\ hist.last.valid
    /\ hist.last.pre_out # <<>>
    /\ hist.last.out_size <= hist.last.out_capacity
    /\ ((hist.last.out_head + hist.last.header) % hist.last.out_capacity) + 4
         > hist.last.out_capacity

(***************************************************************************)
(* C22: the sorted-set commands on a key the store does not hold            *)
(***************************************************************************)
\* the store s with an empty sorted set under key
WithEmptySet(s, key) == [s EXCEPT !.db = PutEnt(s.db, entry_new(T_ZSET, key))]

\* the last request was the command `name` of n strings on an absent key
OnAbsentKey(n, name) ==
    /\ hist.last.valid
    /\ CmdIs(hist.last.cmd, n, name)
    /\ ~HasKey(hist.last.pre.db, hist.last.cmd[2])

\* the store after the last request holds a sorted set under the key, and
\* keys lists the key
KeyCreated ==
    /\ HoldsZSet(hist.last.post, hist.last.cmd[2])
    /\ ReplyOn(hist.last.post, <<s_keys>>, hist.last.t)
         = <<TAG_ARR>> \o U32LE(1) \o <<TAG_STR>> \o U32LE(Len(hist.last.cmd[2]))
             \o hist.last.cmd[2]

\* the last request left the store as it was and was answered as on an empty
\* sorted set
ReadAsEmpty ==
    /\ hist.last.post.db = hist.last.pre.db
    /\ hist.last.post.heap = hist.last.pre.heap
    /\ hist.last.reply
         = ReplyOn(WithEmptySet(hist.last.pre, hist.last.cmd[2]), hist.last.cmd, hist.last.t)

\* zadd with a valid score on an absent key creates the key; zscore and zquery
\* on an absent key answer as for an empty set and change nothing
C22_ZAddAndReads ==
    /\ (OnAbsentKey(4, s_zadd) /\ ~IsErr(hist.last.reply)) => KeyCreated
    /\ OnAbsentKey(3, s_zscore) => ReadAsEmpty
    /\ OnAbsentKey(6, s_zquery) => ReadAsEmpty

\* C22 (as stated): zadd with a valid score and zrem on an absent key leave a
\* sorted set under the key, listed by keys; zscore and zquery on an absent
\* key answer as for an empty set and change nothing
C22_WritesCreateKey ==
    /\ C22_ZAddAndReads
    /\ OnAbsentKey(3, s_zrem) => KeyCreated

\* C22 (amended): zadd creates the key; zrem, like zscore and zquery, answers
\* as for an empty set (INT 0) and leaves the store without the key
C22_OnlyZAddCreatesKey ==
    /\ C22_ZAddAndReads
    /\ OnAbsentKey(3, s_zrem) =>
         /\ ReadAsEmpty
         /\ hist.last.reply = IntReply(0)
         /\ ~HasKey(hist.last.post.db, hist.last.cmd[2])

\* a zrem was dispatched on an absent key
C22_ZRemOnAbsentSeen == OnAbsentKey(3, s_zrem) /\ hist.last.reply = IntReply(0)

(***************************************************************************)
(* C23: fsync rate limit.  Any two fsync calls on the log fd are more than  *)
(* 1000 ms apart on the monotonic clock, over every sequence of mutating    *)
(* commands and rewrites, and a flush whose write() failed issues no fsync. *)
(* A step of the loop happens at one instant, so it holds at most one       *)
(* fsync; aof_last_save_ms changes with an fsync only and then holds its    *)
(* instant, so from the second fsync on it is the instant of the one before.*)
(***************************************************************************)
C23_Step ==
    /\ files'.fsyncs <= files.fsyncs + 1
    /\ files'.fsyncs > files.fsyncs =>
          /\ g_data'.aof_last_save_ms = now
          /\ files.fsyncs > 0 => now - g_data.aof_last_save_ms > 1000
    /\ files'.fsyncs = files.fsyncs =>
          g_data'.aof_last_save_ms = g_data.aof_last_save_ms
    /\ hist'.last.aof_write = "fail" => files'.fsyncs = files.fsyncs

C23_FsyncRateLimit == [][C23_Step]_vars

\* the log was fsynced twice
C23_TwoFsyncs == files.fsyncs = 2

\* a request whose write() on the log fd failed, at an instant the gate is open
C23_FailedWriteSeen ==
    /\ hist.last.valid
    /\ hist.last.aof_write = "fail"
    /\ hist.last.post.aof_buf # <<>>
    /\ hist.last.t - g_data.aof_last_save_ms > 1000

(***************************************************************************)
(* C24: AOF ordering.  For every successful mutating command, its frame is  *)
(* in the AOF buffer before response_end finalizes the length header of its *)
(* response, and write() of the AOF buffer to the log fd is attempted       *)
(* before the event loop next calls poll.                                   *)
(* At response_end the log followed by the pending bytes is what it was     *)
(* before the request followed by the frame of the command, and a write()   *)
(* that succeeds in full has made the log longer by then.                   *)
(***************************************************************************)
Mutating(cmd) ==
    \/ CmdIs(cmd, 3, s_set) \/ CmdIs(cmd, 2, s_del) \/ CmdIs(cmd, 3, s_pexpire)
    \/ CmdIs(cmd, 4, s_zadd) \/ CmdIs(cmd, 3, s_zrem)

Succeeded(e) == e.reply # <<>> /\ e.reply[1] # TAG_ERR

FrameLogged(e) ==
    /\ e.post.log \o e.post.aof_buf = e.pre.log \o e.pre.aof_buf \o AofRecord(e.cmd)
    /\ e.aof_write = "full" => Len(e.post.log) > Len(e.pre.log)

\* as stated: every successful mutating command
C24_AofOrdering ==
    (hist.last.valid /\ Mutating(hist.last.cmd) /\ Succeeded(hist.last))
        => FrameLogged(hist.last)

\* every successful mutating command dispatched while the AOF is enabled
C24_AofOrderingWhenEnabled ==
    (hist.last.valid /\ Mutating(hist.last.cmd) /\ Succeeded(hist.last)
        /\ g_data.aof_enabled)
        => FrameLogged(hist.last)

\* a successful set behind pending bytes that an earlier write() left, logged
\* while the AOF is enabled
C24_LoggedBehindPending ==
    /\ hist.last.valid
    /\ CmdIs(hist.last.cmd, 3, s_set)
    /\ Succeeded(hist.last)
    /\ g_data.aof_enabled
    /\ hist.last.pre.aof_buf # <<>>
    /\ Len(hist.last.post.log) > Len(hist.last.pre.log)

\* a successful set after the AOF was disabled
C24_SetWhileDisabled ==
    /\ hist.last.valid
    /\ CmdIs(hist.last.cmd, 3, s_set)
    /\ Succeeded(hist.last)
    /\ ~g_data.aof_enabled

(***************************************************************************)
(* C25: AOF stream integrity.  Between rewrites the bytes written to the    *)
(* log fd followed by the content of the AOF buffer are the frames appended *)
(* by aof_write_command, concatenated in dispatch order across all          *)
(* connections; a write() that returns n removes exactly the first n bytes  *)
(* of the buffer and a write() that fails leaves the buffer as it is.       *)
(***************************************************************************)
\* the frame aof_write_command appends for cmd
FrameOf(cmd) == IF Mutating(cmd) /\ g_data.aof_enabled THEN AofRecord(cmd) ELSE <<>>

RECURSIVE FramesOf(_)
FramesOf(evs) == IF evs = <<>> THEN <<>> ELSE FrameOf(Head(evs).cmd) \o FramesOf(Tail(evs))

\* the requests the last handle_read dispatched, in order
LastDispatched ==
    IF hist.rd.valid /\ hist.rd.fd \in DOMAIN hist.evs
    THEN SubSeq(hist.evs[hist.rd.fd],
                Len(hist.evs[hist.rd.fd]) - hist.rd.n + 1, Len(hist.evs[hist.rd.fd]))
    ELSE <<>>

NoRewriteIn(evs) == \A i \in 1..Len(evs) : evs[i].cmd # <<s_bgrewriteaof>>

\* one request: n bytes of the pending stream moved to the log
OneWrite(e, stream, n) ==
    /\ n >= 0
    /\ n <= Len(stream)
    /\ e.post.log = e.pre.log \o Take(stream, n)
    /\ e.post.aof_buf = Drop(stream, n)
    /\ e.aof_write = "fail" => n = 0

C25_StreamIntegrity ==
    /\ (hist.last.valid /\ hist.last.cmd # <<s_bgrewriteaof>>) =>
          OneWrite(hist.last, hist.last.pre.aof_buf \o FrameOf(hist.last.cmd),
                   Len(hist.last.post.log) - Len(hist.last.pre.log))
    /\ (hist.rd.valid /\ NoRewriteIn(LastDispatched)) =>
          hist.rd.post.log \o hist.rd.post.aof_buf
              = hist.rd.pre.log \o hist.rd.pre.aof_buf \o FramesOf(LastDispatched)

\* two connections have had frames appended and a write() falls short behind
\* bytes an earlier write() left pending, so that the log ends inside a frame
C25_ShortAfterFailed ==
    /\ hist.last.valid
    /\ hist.last.aof_write = "short"
    /\ Mutating(hist.last.cmd)
    /\ hist.last.pre.aof_buf # <<>>
    /\ hist.last.post.aof_buf # <<>>
    /\ Len(hist.last.post.log) > Len(hist.last.pre.log)
    /\ \E fd \in DOMAIN hist.evs :
          fd # hist.last.fd /\ \E i \in 1..Len(hist.evs[fd]) : Mutating(hist.evs[fd][i].cmd)

(***************************************************************************)
(* C26: readiness flags.  At every call to poll each live connection has    *)
(* exactly one of want_read and want_write set, and want_write holds iff    *)
(* outgoing is non-empty; assert(conn->want_read) on POLLIN,                *)
(* assert(conn->want_write) on POLLOUT and assert(outgoing.size() > 0) in   *)
(* handle_write never fail, whatever the reads, writes, EAGAINs and partial *)
(* writes.                                                                  *)
(***************************************************************************)
C26_ReadinessFlags ==
    /\ hist.abort = ""
    /\ pc = "poll" =>
          \A fd \in DOMAIN g_data.fd2conn :
              /\ g_data.fd2conn[fd].want_read # g_data.fd2conn[fd].want_write
              /\ g_data.fd2conn[fd].want_write <=> g_data.fd2conn[fd].outgoing.size > 0

\* poll is called while a connection waits to write the rest of two
\* pipelined responses
C26_PollWithPartWritten ==
    /\ pc = "poll"
    /\ \E fd \in DOMAIN g_data.fd2conn :
          /\ g_data.fd2conn[fd].want_write
          /\ g_data.fd2conn[fd].outgoing.size > 0
          /\ g_data.fd2conn[fd].outgoing.head > 0
          /\ hist.rd.valid /\ hist.rd.fd = fd /\ hist.rd.n = 2

(***************************************************************************)
(* C27: connection lifecycle.  The connections in the fd -> Conn table are  *)
(* the connections linked in the idle list; every accepted fd is closed     *)
(* exactly once; no connection is destroyed twice or used after its         *)
(* destruction within an iteration; on accept the slot of the new fd is     *)
(* empty.                                                                   *)
(* The open sockets are those of the connections in the table, so that a    *)
(* socket is closed when its Conn is destroyed and not before; the          *)
(* connections an iteration still has to handle are in the table, each      *)
(* once; the fd accept() hands out, the lowest one not open, has no Conn.   *)
(***************************************************************************)
IdleSet == {g_data.idle_list[i] : i \in 1..Len(g_data.idle_list)}

\* the fd accept() returns: the lowest one that is not open
KernelFd ==
    CHOOSE fd \in 5..(5 + Cardinality(DOMAIN net.sock)) :
        /\ fd \notin DOMAIN net.sock
        /\ \A x \in 5..(fd - 1) : x \in DOMAIN net.sock

C27_ConnLifecycle ==
    /\ IdleSet = DOMAIN g_data.fd2conn
    /\ Len(g_data.idle_list) = Cardinality(DOMAIN g_data.fd2conn)
    /\ \A fd \in DOMAIN g_data.fd2conn : g_data.fd2conn[fd].fd = fd
    /\ DOMAIN net.sock = DOMAIN g_data.fd2conn
    /\ pc = "serve" =>
          \A i \in 1..Len(ready.ev) :
              /\ ready.ev[i].fd \in DOMAIN g_data.fd2conn
              /\ \A j \in 1..Len(ready.ev) : ready.ev[j].fd = ready.ev[i].fd => j = i
    /\ pc = "accept" => (KernelFd \notin DOMAIN g_data.fd2conn /\ NextFd = KernelFd)

\* a third connection is being accepted on the fd of one that was destroyed
\* while another one lives
C27_FdHandedOutAgain ==
    /\ pc = "accept"
    /\ hist.nconn = MaxAccepts
    /\ DOMAIN g_data.fd2conn = {6}
    /\ KernelFd = 5

(***************************************************************************)
(* C28: idle list order.  Walking the idle list from sentinel.next to       *)
(* sentinel.prev visits the connections in non-decreasing last_active_ms    *)
(* order, so that the head carries the earliest idle deadline.              *)
(***************************************************************************)
LastActive(i) == g_data.fd2conn[g_data.idle_list[i]].last_active_ms

C28_IdleListOrder ==
    /\ \A i \in 1..Len(g_data.idle_list) : g_data.idle_list[i] \in DOMAIN g_data.fd2conn
    /\ \A i, j \in 1..Len(g_data.idle_list) : i < j => LastActive(i) <= LastActive(j)
    /\ \A fd \in DOMAIN g_data.fd2conn :
          g_data.idle_list # <<>> => LastActive(1) <= g_data.fd2conn[fd].last_active_ms

\* the connection accepted first was active after the one accepted second and
\* is now behind it in the list
C28_Requeued ==
    /\ g_data.idle_list = <<6, 5>>
    /\ LastActive(1) < LastActive(2)
    /\ hist.nconn = 2

(***************************************************************************)
(* C29: TTL heap and store.  After any sequence of set, del, pexpire, zadd, *)
(* zrem and timer expirations the heap slots and the store entries with a   *)
(* TTL are in one-to-one correspondence: slot i refers to an Entry that is  *)
(* in the store and whose heap_idx is i, every Entry with a heap_idx owns   *)
(* exactly one slot, the minimum deadline is at slot 0, and process_timers  *)
(* finds the expired Entry in the store.                                    *)
(***************************************************************************)
C29_HeapStore ==
    /\ \A e1, e2 \in g_data.db : e1.key = e2.key => e1 = e2
    /\ \A i \in 1..Len(g_data.heap) :
          \E e \in g_data.db : e.key = g_data.heap[i].ref /\ e.heap_idx = i - 1
    /\ \A e \in g_data.db :
          e.heap_idx # -1 =>
              /\ e.heap_idx \in 0..(Len(g_data.heap) - 1)
              /\ g_data.heap[e.heap_idx + 1].ref = e.key
    /\ \A i, j \in 1..Len(g_data.heap) :
          g_data.heap[i].ref = g_data.heap[j].ref => i = j
    /\ \A i \in 1..Len(g_data.heap) : g_data.heap[1].val <= g_data.heap[i].val

\* a request deleted the item in slot 0 of a heap of three, the last item
\* took the slot, and a timer expiration has since removed another one
C29_RootReplaced ==
    /\ Len(g_data.heap) = 1
    /\ hist.last.valid
    /\ Len(hist.last.pre.heap) = 3
    /\ Len(hist.last.post.heap) = 2
    /\ hist.last.pre.heap[1].ref \notin {hist.last.post.heap[1].ref, hist.last.post.heap[2].ref}
    /\ hist.last.post.heap[1].ref = hist.last.pre.heap[3].ref
    /\ g_data.heap[1].ref # K1

(***************************************************************************)
(* C30: ownership hand-off.  When an Entry (a sorted set of more than 1000  *)
(* members) is queued to the worker pool it has already left the value      *)
(* store and the TTL heap on the main thread, so that from the hand-off on  *)
(* no main-thread structure refers to it and no command or timer reaches it *)
(* while or after a worker frees it; for del and for timer expiry alike.    *)
(***************************************************************************)
Keys(db) == {e.key : e \in db}

HeapRefs(heap) == {heap[i].ref : i \in 1..Len(heap)}

\* the Entry the step hands to the pool
Queued == g_data'.thread_pool[Len(g_data'.thread_pool)]

\* a step that queues an Entry queues one that was in the store, and leaves
\* neither its key in the store nor a slot of the heap referring to it
C30_Step ==
    Len(g_data'.thread_pool) > Len(g_data.thread_pool) =>
        /\ Len(g_data'.thread_pool) = Len(g_data.thread_pool) + 1
        /\ \E e \in g_data.db : e.key = Queued.key /\ e.zset = Queued.zset
        /\ Queued.key \notin Keys(g_data'.db)
        /\ Queued.key \notin HeapRefs(g_data'.heap)

\* an Entry in the queue is large, is no Entry of the store and has no slot
C30_Detached ==
    \A i \in 1..Len(g_data.thread_pool) :
        /\ g_data.thread_pool[i] \notin g_data.db
        /\ g_data.thread_pool[i].heap_idx = -1
        /\ g_data.thread_pool[i].type = T_ZSET
        /\ hm_size(g_data.thread_pool[i].zset) > k_large_container_size

C30_HandOff == []C30_Detached /\ [][C30_Step]_vars

\* del handed the large sorted set, which had a deadline, to the pool
C30_QueuedByDel ==
    /\ g_data.thread_pool # <<>>
    /\ hist.last.valid
    /\ hist.last.cmd = <<s_del, K3>>
    /\ K3 \in HeapRefs(hist.last.pre.heap)
    /\ K3 \notin Keys(g_data.db)

\* process_timers handed it to the pool: no client has sent a request
C30_QueuedByTimer ==
    /\ g_data.thread_pool # <<>>
    /\ hist.n = 0
    /\ K3 \notin Keys(g_data.db)

(***************************************************************************)
(* C31: the rewrite flag is never left set.  Whenever bgrewriteaof returns  *)
(* to the dispatcher, on every path (success, failure to open the side      *)
(* file, failure of rename, failure to reopen the log), aof_rewriting is    *)
(* false and aof_rewrite_fd is -1, so that no later bgrewriteaof is refused *)
(* as already in progress.                                                  *)
(***************************************************************************)
InProgressReply == BufContent(out_err(Buffer(BufInitCap), ERR_BAD_ARG, m_aof_in_progress))

C31_RewriteFlagCleared ==
    /\ ~g_data.aof_rewriting
    /\ g_data.aof_rewrite_fd = -1
    /\ ~files.has_temp
    /\ \A fd \in DOMAIN hist.evs : \A i \in 1..Len(hist.evs[fd]) :
          hist.evs[fd][i].reply # InProgressReply

\* a bgrewriteaof that succeeds behind one that failed
C31_RewriteAfterFailure ==
    \E fd \in DOMAIN hist.evs :
        /\ Len(hist.evs[fd]) = 2
        /\ hist.evs[fd][1].cmd = <<s_bgrewriteaof>>
        /\ hist.evs[fd][1].reply[1] = TAG_ERR
        /\ hist.evs[fd][2].cmd = <<s_bgrewriteaof>>
        /\ hist.evs[fd][2].reply = BufContent(out_int(Buffer(BufInitCap), 1))

(***************************************************************************)
(* C32: replay writes nothing and re-enables logging.  While load_aof_file  *)
(* replays commands nothing is appended to the AOF buffer or the log file,  *)
(* and after it returns on any path (the log cannot be opened for reading,  *)
(* clean end of file, truncated or corrupt record) AOF logging is enabled   *)
(* again, so that every later successful mutating command is logged.        *)
(***************************************************************************)
\* the loop of load_aof_file on the bytes `data`: every command it dispatches
\* leaves the files and the AOF buffer as they are
RECURSIVE ReplayQuiet(_, _, _, _)
ReplayQuietFrom(g, fs, t, r) ==
    /\ do_request(g, fs, r.cmd, Buffer(BufInitCap), t, IoOk).fs = fs
    /\ do_request(g, fs, r.cmd, Buffer(BufInitCap), t, IoOk).g.aof_buf = g.aof_buf
    /\ ReplayQuiet(do_request(g, fs, r.cmd, Buffer(BufInitCap), t, IoOk).g, fs, r.rest, t)

ReplayQuiet(g, fs, data, t) ==
    IF Len(data) < 4 \/ FromU32LE(data) > k_max_args THEN TRUE
    ELSE ReplayQuietFrom(g, fs, t, LoadStrs(Drop(data, 4), FromU32LE(data), <<>>))

\* the step of aof_init: nothing is written
C32_QuietStep ==
    pc = "load" =>
        /\ ReplayQuiet([g_data EXCEPT !.aof_fd = 3, !.aof_enabled = FALSE], files,
                       files.log, now)
        /\ g_data'.aof_buf = g_data.aof_buf
        /\ files' = files

\* and logging is enabled when it returns
C32_Step == C32_QuietStep /\ (pc = "load" => g_data'.aof_enabled)

\* a later successful mutating command is logged
C32_Later ==
    (hist.last.valid /\ Mutating(hist.last.cmd) /\ Succeeded(hist.last))
        => (hist.last.post.log \o hist.last.post.aof_buf
                = hist.last.pre.log \o hist.last.pre.aof_buf \o AofRecord(hist.last.cmd))

\* as stated
C32_ReplayQuietAndReenabled == []C32_Later /\ [][C32_Step]_vars

\* what holds: the replay writes nothing, and later commands are logged when
\* the log could be opened for reading
C32_QuietReplay ==
    [](g_data.aof_enabled => C32_Later) /\ [][C32_QuietStep]_vars

\* a set served after a startup that could not open the log for reading
C32_SetAfterFailedOpen ==
    /\ hist.last.valid
    /\ hist.last.cmd = <<s_set, K1, V2>>
    /\ ~g_data.aof_enabled
    /\ hist.last.post.log = hist.last.pre.log
    /\ hist.last.post.aof_buf = <<>>

(***************************************************************************)
(* C33: the array-count patch stays inside the reserved field.  When zquery *)
(* finishes its array, out_end_arr writes exactly the 4 logical bytes       *)
(* reserved by out_begin_arr in the outgoing ring buffer, for every         *)
(* position of the buffer's head, including when those 4 bytes straddle the *)
(* wrap point; it writes no storage index >= capacity and no other logical  *)
(* byte, and the count read back from the response equals the number of     *)
(* elements emitted.                                                        *)
(***************************************************************************)
\* the last request was a zquery that went through out_begin_arr and
\* out_end_arr, and response_end left its array in place
ZQueryPatched(e) ==
    /\ e.valid
    /\ Len(e.cmd) = 6
    /\ e.cmd[1] = s_zquery
    /\ str2int(e.cmd[6]).ok
    /\ str2int(e.cmd[6]).out > 0
    /\ e.gen <= k_max_msg
    /\ e.reply # <<>>
    /\ e.reply[1] = TAG_ARR

\* outgoing as out_end_arr saw it (head and capacity), and its `ctx`: the
\* count follows the 4 bytes of the response header and the tag
PatchedOut(e) == [head |-> e.out_head, capacity |-> e.out_capacity]

PatchedCtx(e) == e.header + 4 + 1

\* the storage indices of the 4 logical bytes out_begin_arr reserved
ReservedField(e) == { BufIndex(PatchedOut(e), PatchedCtx(e) + i) : i \in 0..3 }

\* the elements (strings and doubles) in the bytes of an array body
RECURSIVE ArrElems(_)
ArrElems(bytes) ==
    IF bytes = <<>> THEN 0
    ELSE IF bytes[1] = TAG_STR /\ Len(bytes) >= 5
    THEN 1 + ArrElems(Drop(bytes, Min(Len(bytes), 5 + FromU32LE(Drop(bytes, 1)))))
    ELSE 1 + ArrElems(Drop(bytes, Min(Len(bytes), 9)))

\* the field straddles the wrap point of the storage
FieldStraddles(e) == BufIndex(PatchedOut(e), PatchedCtx(e)) + 4 > e.out_capacity

C33_CountPatchInField ==
    ZQueryPatched(hist.last) =>
        /\ OutEndArrSpan(PatchedOut(hist.last), PatchedCtx(hist.last))
               = ReservedField(hist.last)
        /\ \A i \in OutEndArrSpan(PatchedOut(hist.last), PatchedCtx(hist.last)) :
               i < hist.last.out_capacity
        /\ FromU32LE(SubSeq(hist.last.reply, 2, 5))
               = ArrElems(Drop(hist.last.reply, 5))

\* what holds: the patch stays inside the field when the field does not
\* straddle the wrap point
C33_CountPatchUnwrapped ==
    (ZQueryPatched(hist.last) /\ ~FieldStraddles(hist.last)) =>
        /\ OutEndArrSpan(PatchedOut(hist.last), PatchedCtx(hist.last))
               = ReservedField(hist.last)
        /\ FromU32LE(SubSeq(hist.last.reply, 2, 5))
               = ArrElems(Drop(hist.last.reply, 5))

\* a zquery whose count field begins on the last byte of the storage
C33_FieldAcrossWrap ==
    /\ ZQueryPatched(hist.last)
    /\ BufIndex(PatchedOut(hist.last), PatchedCtx(hist.last))
          = hist.last.out_capacity - 1

\* a zquery that emitted elements
C33_ElementsEmitted ==
    /\ ZQueryPatched(hist.last)
    /\ ArrElems(Drop(hist.last.reply, 5)) > 0
====
